---- MODULE Spec2Model ----
(***************************************************************************)
(* A model of the WER annotation editor: the tokenizer (useTextParser),    *)
(* the segment editor (useSegmentEditor), the history manager (useHistory) *)
(* and the session that owns them (App.vue).                               *)
(*                                                                         *)
(* Strings are sequences of one-character strings, so that slicing,        *)
(* concatenation and length are computed as the code computes them.        *)
(* Offsets (startIndex, endIndex, index) keep their 0-based JavaScript     *)
(* values; positions in TLA+ sequences are 1-based.                        *)
(* An id `seg-n` / `line-n` is modelled by the number n: the template      *)
(* string is injective in n, and ids are only ever compared for equality.  *)
(***************************************************************************)
EXTENDS Integers, Sequences, FiniteSets, TLC

VARIABLES
    lines,              \* App.vue: lines (ref<TextLine[]>)
    selection,          \* App.vue: selection (reactive<Selection>)
    history,            \* useHistory: history (ref<HistoryState[]>)
    isMarking,          \* App.vue: isMarking
    isTextEditMode,     \* App.vue: isTextEditMode
    inputText,          \* App.vue: inputText
    segmentIdCounter,   \* useTextParser: segmentIdCounter
    lineIdCounter,      \* useTextParser: lineIdCounter
    editorIdCounter,    \* useSegmentEditor: segmentIdCounter
    lastOp,             \* observation: the command that produced this state
    steps,              \* observation: the number of commands so far
    shadow,             \* observation: (lines, selection) before each snapshotted command
    heap,               \* reference level: the line collections allocated so far, by address
    liveRef,            \* reference level: the address lines.value refers to
    snapRefs,           \* reference level: the history stack, its entries holding addresses
    searchQuery,        \* useSearch: searchQuery
    isSearchOpen,       \* useSearch: isSearchOpen
    currentMatchIndex,  \* useSearch: currentMatchIndex
    caseSensitive       \* useSearch: caseSensitive

vars == <<lines, selection, history, isMarking, isTextEditMode, inputText,
          segmentIdCounter, lineIdCounter, editorIdCounter, lastOp, steps,
          shadow, heap, liveRef, snapRefs,
          searchQuery, isSearchOpen, currentMatchIndex, caseSensitive>>

\* The state of the search bar, which only SpecSearch moves
searchVars == <<searchQuery, isSearchOpen, currentMatchIndex, caseSensitive>>

\* The reference-level variables, which only SpecAlias moves
refVars == <<heap, liveRef, snapRefs>>

-----------------------------------------------------------------------------
(* Bounds of the model *)

MaxLen == 3          \* longest input text of the tokenizer specification
MaxSteps == 5        \* commands in a run of the session specification
MaxEditSteps == 5    \* commands in a run of the editor specification
MaxPushes == 60      \* saveState calls in a run of the history specification
MaxRefSteps == 5     \* commands in a run of the reference-level specification
MaxReloadSteps == 5  \* commands in a run of the reload specification
MaxBatchSteps == 4   \* commands in a run of the batch-merge specification
MaxSearchSteps == 6  \* commands in a run of the search specification
MaxToggleSteps == 5  \* commands in a run of the toggle specification

(* Program constants *)

NULL == 0                   \* Selection.lineId / segmentId = null (ids start at 1)
MAX_HISTORY_SIZE == 50
EditorIdBase == 1000        \* useSegmentEditor: let segmentIdCounter = 1000

-----------------------------------------------------------------------------
(* Characters and strings *)

Letters == {"a", "b", "A"}
Whitespace == {" "}
PunctuationChars == {"!"}
Newline == "\n"
LineChars == Letters \cup Whitespace \cup PunctuationChars

Last(s) == s[Len(s)]
Front(s) == SubSeq(s, 1, Len(s) - 1)
RemoveAt(s, i) == SubSeq(s, 1, i - 1) \o SubSeq(s, i + 1, Len(s))
InsertAt(s, i, x) == SubSeq(s, 1, i - 1) \o <<x>> \o SubSeq(s, i, Len(s))

\* String.prototype.trim() === '' : only whitespace (a newline is whitespace too)
IsBlank(text) == \A i \in 1..Len(text) : text[i] \in Whitespace \cup {Newline}

\* /^\s+$/.test(segment)
IsWhitespaceOnly(text) == Len(text) > 0 /\ IsBlank(text)

\* isPunctuation: /^[...]+$/ over the punctuation classes
isPunctuation(text) ==
    Len(text) > 0 /\ \A i \in 1..Len(text) : text[i] \in PunctuationChars

\* text.split('\n')
RECURSIVE SplitLines(_)
SplitLines(text) ==
    IF \A i \in 1..Len(text) : text[i] # Newline
    THEN <<text>>
    ELSE LET k == CHOOSE i \in 1..Len(text) :
                      text[i] = Newline /\ \A j \in 1..(i - 1) : text[j] # Newline
         IN <<SubSeq(text, 1, k - 1)>> \o SplitLines(SubSeq(text, k + 1, Len(text)))

\* lines.map(l => l.originalText).join('\n')
RECURSIVE JoinLines(_)
JoinLines(texts) ==
    IF Len(texts) = 0 THEN <<>>
    ELSE IF Len(texts) = 1 THEN texts[1]
    ELSE texts[1] \o <<Newline>> \o JoinLines(Tail(texts))

\* All strings over `chars` of length 1..n
RECURSIVE StringsUpTo(_, _)
StringsUpTo(chars, n) ==
    IF n = 0 THEN {<<>>}
    ELSE LET shorter == StringsUpTo(chars, n - 1)
         IN shorter \cup {Append(s, c) : s \in shorter, c \in chars}

-----------------------------------------------------------------------------
(* Tokenizer (useTextParser) *)

\* Intl.Segmenter('zh-TW', {granularity: 'word'}): the word boundaries of
\* UAX #29 on this alphabet. Letters stay together (WB5), horizontal white
\* space stays together (WB3d), everything else breaks (WB999).
NoBreakBetween(c, d) ==
    \/ c \in Letters /\ d \in Letters
    \/ c \in Whitespace /\ d \in Whitespace

UnitEnd(text, start) ==
    CHOOSE e \in start..Len(text) :
        /\ \A j \in start..(e - 1) : NoBreakBetween(text[j], text[j + 1])
        /\ (e = Len(text) \/ ~NoBreakBetween(text[e], text[e + 1]))

\* segmenter.segment(text): the units {segment, index} in order
RECURSIVE SegmenterUnits(_, _)
SegmenterUnits(text, start) ==
    IF start > Len(text) THEN <<>>
    ELSE LET e == UnitEnd(text, start)
         IN <<[segment |-> SubSeq(text, start, e), index |-> start - 1]>>
            \o SegmenterUnits(text, e + 1)

KeepUnit(u) == ~IsWhitespaceOnly(u.segment)

\* tokenizeLine with offsets counted over the retained units only
tokenizeLinePacked(text, counter) ==
    LET kept == SelectSeq(SegmenterUnits(text, 1), KeepUnit)
        RECURSIVE Before(_)
        Before(i) == IF i = 1 THEN 0 ELSE Before(i - 1) + Len(kept[i - 1].segment)
    IN [i \in 1..Len(kept) |->
           [id |-> counter + i,
            text |-> kept[i].segment,
            isError |-> FALSE,
            isDeleted |-> isPunctuation(kept[i].segment),
            startIndex |-> Before(i),
            endIndex |-> Before(i) + Len(kept[i].segment)]]

\* tokenizeLine(text) with the segment counter at `counter` on entry:
\* the i-th retained unit gets id ++segmentIdCounter
tokenizeLine(text, counter) ==
    LET kept == SelectSeq(SegmenterUnits(text, 1), KeepUnit)
    IN [i \in 1..Len(kept) |->
           [id |-> counter + i,
            text |-> kept[i].segment,
            isError |-> FALSE,
            isDeleted |-> isPunctuation(kept[i].segment),
            startIndex |-> kept[i].index,
            endIndex |-> kept[i].index + Len(kept[i].segment)]]

\* A loop that spends a line id on every input line, blank ones included
RECURSIVE ParseLinesReserving(_, _, _)
ParseLinesReserving(texts, sc, lc) ==
    IF Len(texts) = 0 THEN [lines |-> <<>>, sc |-> sc, lc |-> lc]
    ELSE IF IsBlank(texts[1]) THEN ParseLinesReserving(Tail(texts), sc, lc + 1)
    ELSE LET segs == tokenizeLine(texts[1], sc)
             rest == ParseLinesReserving(Tail(texts), sc + Len(segs), lc + 1)
         IN [lines |-> <<[id |-> lc + 1, originalText |-> texts[1], segments |-> segs]>>
                       \o rest.lines,
             sc |-> rest.sc, lc |-> rest.lc]

\* The loop of parseText over the split lines, from counters (sc, lc)
RECURSIVE ParseLines(_, _, _)
ParseLines(texts, sc, lc) ==
    IF Len(texts) = 0 THEN [lines |-> <<>>, sc |-> sc, lc |-> lc]
    ELSE IF IsBlank(texts[1]) THEN ParseLines(Tail(texts), sc, lc)
    ELSE LET segs == tokenizeLine(texts[1], sc)
             rest == ParseLines(Tail(texts), sc + Len(segs), lc + 1)
         IN [lines |-> <<[id |-> lc + 1, originalText |-> texts[1], segments |-> segs]>>
                       \o rest.lines,
             sc |-> rest.sc, lc |-> rest.lc]

\* parseText(text): resetIdCounters(), then one line per non-blank input line
parseText(text) == ParseLines(SplitLines(text), 0, 0)

\* A re-parse that numbers its segments from 1 again
reParseLineResetting(text, existingLineId, sc, lc) ==
    LET segs == tokenizeLine(text, 0)
        fresh == existingLineId = NULL
    IN [line |-> [id |-> IF fresh THEN lc + 1 ELSE existingLineId,
                  originalText |-> text, segments |-> segs],
        sc |-> Len(segs),
        lc |-> IF fresh THEN lc + 1 ELSE lc]

\* reParseLine(text, existingLineId): existingLineId || generateLineId()
reParseLine(text, existingLineId, sc, lc) ==
    LET segs == tokenizeLine(text, sc)
        fresh == existingLineId = NULL
    IN [line |-> [id |-> IF fresh THEN lc + 1 ELSE existingLineId,
                  originalText |-> text, segments |-> segs],
        sc |-> sc + Len(segs),
        lc |-> IF fresh THEN lc + 1 ELSE lc]

\* A renumbering that rebuilds the segments and so loses their marks
RECURSIVE ReassignFromUnmarking(_, _, _)
ReassignFromUnmarking(ls, sc, lc) ==
    IF Len(ls) = 0 THEN [lines |-> <<>>, sc |-> sc, lc |-> lc]
    ELSE LET l == ls[1]
             segs == [i \in 1..Len(l.segments) |->
                         [l.segments[i] EXCEPT !.id = sc + i, !.isError = FALSE]]
             rest == ReassignFromUnmarking(Tail(ls), sc + Len(segs), lc + 1)
         IN [lines |-> <<[l EXCEPT !.id = lc + 1, !.segments = segs]>> \o rest.lines,
             sc |-> rest.sc, lc |-> rest.lc]

\* reassignIds(lines): resetIdCounters(), then fresh ids in document order
RECURSIVE ReassignFrom(_, _, _)
ReassignFrom(ls, sc, lc) ==
    IF Len(ls) = 0 THEN [lines |-> <<>>, sc |-> sc, lc |-> lc]
    ELSE LET l == ls[1]
             segs == [i \in 1..Len(l.segments) |->
                         [l.segments[i] EXCEPT !.id = sc + i]]
             rest == ReassignFrom(Tail(ls), sc + Len(segs), lc + 1)
         IN [lines |-> <<[l EXCEPT !.id = lc + 1, !.segments = segs]>> \o rest.lines,
             sc |-> rest.sc, lc |-> rest.lc]

reassignIds(ls) == ReassignFrom(ls, 0, 0)

-----------------------------------------------------------------------------
(* History manager (useHistory) *)

\* JSON.stringify writes an object's own enumerable properties and
\* JSON.parse builds a new object from them; strings, booleans and finite
\* integers come back as they were
CloneSegment(seg) ==
    [id |-> seg.id, text |-> seg.text, isError |-> seg.isError,
     isDeleted |-> seg.isDeleted, startIndex |-> seg.startIndex,
     endIndex |-> seg.endIndex]

\* cloneLines: JSON.parse(JSON.stringify(lines)), as a value (the identity
\* of the new object graph is modelled in SpecAlias)
cloneLines(ls) ==
    [i \in 1..Len(ls) |->
        [id |-> ls[i].id,
         originalText |-> ls[i].originalText,
         segments |-> [j \in 1..Len(ls[i].segments) |->
                          CloneSegment(ls[i].segments[j])]]]

\* saveState that never evicts
saveStateUnbounded(h, ls, selectedLineId, selectedSegmentId) ==
    Append(h, [lines |-> cloneLines(ls),
               selectedLineId |-> selectedLineId,
               selectedSegmentId |-> selectedSegmentId])

\* saveState(lines, selectedLineId, selectedSegmentId) on the stack h
saveState(h, ls, selectedLineId, selectedSegmentId) ==
    LET clonedLines == cloneLines(ls)
        state == [lines |-> clonedLines,
                  selectedLineId |-> selectedLineId,
                  selectedSegmentId |-> selectedSegmentId]
        pushed == Append(h, state)
    IN IF Len(clonedLines) = 0 /\ Len(ls) > 0 THEN h
       ELSE IF Len(pushed) > MAX_HISTORY_SIZE THEN Tail(pushed)
       ELSE pushed

\* undo that takes the oldest entry
undoOldest(h) ==
    IF Len(h) = 0 THEN [found |-> FALSE, history |-> h]
    ELSE [found |-> TRUE, state |-> Head(h), history |-> Tail(h)]

\* An undo that throws the whole stack away with the entry it returns
undoAll(h) ==
    IF Len(h) = 0 THEN [found |-> FALSE, history |-> h]
    ELSE [found |-> TRUE, state |-> Last(h), history |-> <<>>]

\* undo(): the popped state (found = FALSE for null) and the remaining stack
undo(h) ==
    IF Len(h) = 0 THEN [found |-> FALSE, history |-> h]
    ELSE [found |-> TRUE, state |-> Last(h), history |-> Front(h)]

\* clearHistory()
clearHistory == <<>>

\* App.vue saveCurrentState(): the hook handed to the editor
saveCurrentState(h, ls, sel) == saveState(h, ls, sel.lineId, sel.segmentId)

-----------------------------------------------------------------------------
(* Segment editor (useSegmentEditor) *)

\* Array.prototype.findIndex, 1-based; 0 when no element matches
FirstIndexOfId(s, id) ==
    IF \E i \in 1..Len(s) : s[i].id = id
    THEN CHOOSE i \in 1..Len(s) : s[i].id = id /\ \A j \in 1..(i - 1) : s[j].id # id
    ELSE 0

\* getSelectedSegment that falls back on the first segment of the document
getSelectedSegmentOrFirst(ls, sel) ==
    LET li == FirstIndexOfId(ls, sel.lineId)
        si == IF li = 0 THEN 0 ELSE FirstIndexOfId(ls[li].segments, sel.segmentId)
    IN IF li # 0 /\ si # 0
       THEN [found |-> TRUE, lineIndex |-> li, segmentIndex |-> si]
       ELSE [found |-> Len(ls) > 0 /\ Len(ls[1].segments) > 0,
             lineIndex |-> 1, segmentIndex |-> 1]

\* getSelectedSegment(): the line and segment positions, or found = FALSE
getSelectedSegment(ls, sel) ==
    LET li == FirstIndexOfId(ls, sel.lineId)
        si == IF li = 0 THEN 0 ELSE FirstIndexOfId(ls[li].segments, sel.segmentId)
    IN [found |-> li # 0 /\ si # 0, lineIndex |-> li, segmentIndex |-> si]

\* What an editor operation leaves behind: the lines, whether the
\* before-action hook ran (it always runs before the first mutation), and
\* the editor's id counter.
EditResult(ls, hook, ec) == [lines |-> ls, hook |-> hook, ec |-> ec]

SetSegments(ls, li, segs) == [ls EXCEPT ![li].segments = segs]

\* expandLeft that loses the character it takes from the previous segment
expandLeftLosing(ls, sel, ec) ==
    LET selected == getSelectedSegment(ls, sel)
    IN IF ~selected.found THEN EditResult(ls, FALSE, ec)
       ELSE
       LET li == selected.lineIndex
           i == selected.segmentIndex
           segs == ls[li].segments
       IN IF i > 1 /\ Len(segs[i - 1].text) > 0
          THEN LET prev2 == [segs[i - 1] EXCEPT !.text = Front(segs[i - 1].text)]
                   moved == [segs EXCEPT ![i - 1] = prev2]
               IN EditResult(SetSegments(ls, li,
                                 IF Len(prev2.text) = 0 THEN RemoveAt(moved, i - 1)
                                 ELSE moved),
                             TRUE, ec)
          ELSE EditResult(ls, TRUE, ec)

expandLeft(ls, sel, ec) ==
    LET selected == getSelectedSegment(ls, sel)
    IN IF ~selected.found THEN EditResult(ls, FALSE, ec)
       ELSE
       LET li == selected.lineIndex
           i == selected.segmentIndex
           segs == ls[li].segments
           segment == segs[i]
       IN IF i > 1 /\ Len(segs[i - 1].text) > 0
          THEN LET prevSegment == segs[i - 1]
                   char == Last(prevSegment.text)
                   prev2 == [prevSegment EXCEPT !.text = Front(prevSegment.text)]
                   seg2 == [segment EXCEPT !.text = <<char>> \o segment.text,
                                           !.startIndex = prevSegment.endIndex]
                   moved == [segs EXCEPT ![i - 1] = prev2, ![i] = seg2]
               IN EditResult(SetSegments(ls, li,
                                 IF Len(prev2.text) = 0 THEN RemoveAt(moved, i - 1)
                                 ELSE moved),
                             TRUE, ec)
          ELSE EditResult(ls, TRUE, ec)

\* shrinkLeft that always opens a new segment for the character it gives up
shrinkLeftOpening(ls, sel, ec) ==
    LET selected == getSelectedSegment(ls, sel)
    IN IF ~selected.found THEN EditResult(ls, FALSE, ec)
       ELSE
       LET li == selected.lineIndex
           i == selected.segmentIndex
           segs == ls[li].segments
           segment == segs[i]
       IN IF Len(segment.text) <= 1 THEN EditResult(ls, TRUE, ec)
          ELSE LET seg2 == [segment EXCEPT !.text = Tail(segment.text),
                                           !.startIndex = segment.startIndex + 1]
                   newSegment == [id |-> ec + 1, text |-> <<segment.text[1]>>,
                                  isError |-> FALSE, isDeleted |-> FALSE,
                                  startIndex |-> seg2.startIndex - 1,
                                  endIndex |-> seg2.startIndex]
               IN EditResult(SetSegments(ls, li,
                                 InsertAt([segs EXCEPT ![i] = seg2], i, newSegment)),
                             TRUE, ec + 1)

shrinkLeft(ls, sel, ec) ==
    LET selected == getSelectedSegment(ls, sel)
    IN IF ~selected.found THEN EditResult(ls, FALSE, ec)
       ELSE
       LET li == selected.lineIndex
           i == selected.segmentIndex
           segs == ls[li].segments
           segment == segs[i]
       IN IF Len(segment.text) <= 1 THEN EditResult(ls, TRUE, ec)
          ELSE LET char == segment.text[1]
                   seg2 == [segment EXCEPT !.text = Tail(segment.text),
                                           !.startIndex = segment.startIndex + 1]
               IN IF i > 1
                  THEN LET prevSegment == segs[i - 1]
                           prev2 == [prevSegment EXCEPT
                                        !.text = prevSegment.text \o <<char>>,
                                        !.endIndex = prevSegment.endIndex + 1]
                       IN EditResult(SetSegments(ls, li,
                                         [segs EXCEPT ![i - 1] = prev2, ![i] = seg2]),
                                     TRUE, ec)
                  ELSE LET newSegment == [id |-> ec + 1, text |-> <<char>>,
                                          isError |-> FALSE, isDeleted |-> FALSE,
                                          startIndex |-> seg2.startIndex - 1,
                                          endIndex |-> seg2.startIndex]
                       IN EditResult(SetSegments(ls, li,
                                         InsertAt([segs EXCEPT ![i] = seg2], 1, newSegment)),
                                     TRUE, ec + 1)

shrinkRight(ls, sel, ec) ==
    LET selected == getSelectedSegment(ls, sel)
    IN IF ~selected.found THEN EditResult(ls, FALSE, ec)
       ELSE
       LET li == selected.lineIndex
           i == selected.segmentIndex
           segs == ls[li].segments
           segment == segs[i]
       IN IF Len(segment.text) <= 1 THEN EditResult(ls, FALSE, ec)
          ELSE LET char == Last(segment.text)
                   seg2 == [segment EXCEPT !.text = Front(segment.text),
                                           !.endIndex = segment.endIndex - 1]
               IN IF i < Len(segs)
                  THEN LET nextSegment == segs[i + 1]
                           next2 == [nextSegment EXCEPT
                                        !.text = <<char>> \o nextSegment.text,
                                        !.startIndex = nextSegment.startIndex - 1]
                       IN EditResult(SetSegments(ls, li,
                                         [segs EXCEPT ![i] = seg2, ![i + 1] = next2]),
                                     TRUE, ec)
                  ELSE LET newSegment == [id |-> ec + 1, text |-> <<char>>,
                                          isError |-> FALSE, isDeleted |-> FALSE,
                                          startIndex |-> seg2.endIndex,
                                          endIndex |-> seg2.endIndex + 1]
                       IN EditResult(SetSegments(ls, li,
                                         Append([segs EXCEPT ![i] = seg2], newSegment)),
                                     TRUE, ec + 1)

\* expandRight that leaves an emptied next segment in the line
expandRightKeeping(ls, sel, ec) ==
    LET selected == getSelectedSegment(ls, sel)
    IN IF ~selected.found THEN EditResult(ls, FALSE, ec)
       ELSE
       LET li == selected.lineIndex
           i == selected.segmentIndex
           segs == ls[li].segments
           segment == segs[i]
       IN IF i < Len(segs) /\ Len(segs[i + 1].text) > 0
          THEN LET nextSegment == segs[i + 1]
                   seg2 == [segment EXCEPT !.text = segment.text \o <<nextSegment.text[1]>>,
                                           !.endIndex = nextSegment.startIndex + 1]
                   next2 == [nextSegment EXCEPT
                                !.text = Tail(nextSegment.text),
                                !.startIndex = nextSegment.startIndex + 1]
               IN EditResult(SetSegments(ls, li,
                                 [segs EXCEPT ![i] = seg2, ![i + 1] = next2]),
                             TRUE, ec)
          ELSE EditResult(ls, TRUE, ec)

\* expandRight that leaves the start of the next sibling where it was
expandRightLagging(ls, sel, ec) ==
    LET selected == getSelectedSegment(ls, sel)
    IN IF ~selected.found THEN EditResult(ls, FALSE, ec)
       ELSE
       LET li == selected.lineIndex
           i == selected.segmentIndex
           segs == ls[li].segments
           segment == segs[i]
       IN IF i < Len(segs) /\ Len(segs[i + 1].text) > 0
          THEN LET nextSegment == segs[i + 1]
                   char == nextSegment.text[1]
                   seg2 == [segment EXCEPT !.text = segment.text \o <<char>>,
                                           !.endIndex = nextSegment.startIndex + 1]
                   next2 == [nextSegment EXCEPT !.text = Tail(nextSegment.text)]
                   moved == [segs EXCEPT ![i] = seg2, ![i + 1] = next2]
               IN EditResult(SetSegments(ls, li,
                                 IF Len(next2.text) = 0 THEN RemoveAt(moved, i + 1)
                                 ELSE moved),
                             TRUE, ec)
          ELSE EditResult(ls, TRUE, ec)

expandRight(ls, sel, ec) ==
    LET selected == getSelectedSegment(ls, sel)
    IN IF ~selected.found THEN EditResult(ls, FALSE, ec)
       ELSE
       LET li == selected.lineIndex
           i == selected.segmentIndex
           segs == ls[li].segments
           segment == segs[i]
       IN IF i < Len(segs) /\ Len(segs[i + 1].text) > 0
          THEN LET nextSegment == segs[i + 1]
                   char == nextSegment.text[1]
                   seg2 == [segment EXCEPT !.text = segment.text \o <<char>>,
                                           !.endIndex = nextSegment.startIndex + 1]
                   next2 == [nextSegment EXCEPT
                                !.text = Tail(nextSegment.text),
                                !.startIndex = nextSegment.startIndex + 1]
                   moved == [segs EXCEPT ![i] = seg2, ![i + 1] = next2]
               IN EditResult(SetSegments(ls, li,
                                 IF Len(next2.text) = 0 THEN RemoveAt(moved, i + 1)
                                 ELSE moved),
                             TRUE, ec)
          ELSE EditResult(ls, TRUE, ec)

\* A delete that also takes the error mark off
deleteSegmentClearing(ls, sel, ec) ==
    LET selected == getSelectedSegment(ls, sel)
    IN IF ~selected.found THEN EditResult(ls, FALSE, ec)
       ELSE LET li == selected.lineIndex
                i == selected.segmentIndex
            IN EditResult([ls EXCEPT ![li].segments[i].isDeleted = ~@,
                                     ![li].segments[i].isError = FALSE], TRUE, ec)

deleteSegment(ls, sel, ec) ==
    LET selected == getSelectedSegment(ls, sel)
    IN IF ~selected.found THEN EditResult(ls, FALSE, ec)
       ELSE LET li == selected.lineIndex
                i == selected.segmentIndex
            IN EditResult([ls EXCEPT ![li].segments[i].isDeleted = ~@], TRUE, ec)

\* A two-state toggle: error -> normal
CycleFlagsTwoState(segment) ==
    IF segment.isDeleted THEN [segment EXCEPT !.isDeleted = FALSE, !.isError = FALSE]
    ELSE [segment EXCEPT !.isError = ~segment.isError]

\* The three-state cycle: normal -> error -> excluded -> normal
CycleFlags(segment) ==
    IF segment.isDeleted THEN [segment EXCEPT !.isDeleted = FALSE, !.isError = FALSE]
    ELSE IF segment.isError THEN [segment EXCEPT !.isError = FALSE, !.isDeleted = TRUE]
    ELSE [segment EXCEPT !.isError = TRUE]

toggleError(ls, sel, ec) ==
    LET selected == getSelectedSegment(ls, sel)
    IN IF ~selected.found THEN EditResult(ls, FALSE, ec)
       ELSE LET li == selected.lineIndex
                i == selected.segmentIndex
            IN EditResult([ls EXCEPT ![li].segments[i] = CycleFlags(@)], TRUE, ec)

\* mergeWithNext whose result is excluded as soon as one half was
mergeWithNextExcluding(ls, sel, ec) ==
    LET selected == getSelectedSegment(ls, sel)
    IN IF ~selected.found THEN EditResult(ls, FALSE, ec)
       ELSE
       LET li == selected.lineIndex
           i == selected.segmentIndex
           segs == ls[li].segments
           segment == segs[i]
       IN IF i >= Len(segs) THEN EditResult(ls, FALSE, ec)
          ELSE LET nextSegment == segs[i + 1]
                   seg2 == [segment EXCEPT
                               !.text = segment.text \o nextSegment.text,
                               !.endIndex = nextSegment.endIndex,
                               !.isError = segment.isError \/ nextSegment.isError,
                               !.isDeleted = segment.isDeleted \/ nextSegment.isDeleted]
               IN EditResult(SetSegments(ls, li,
                                 RemoveAt([segs EXCEPT ![i] = seg2], i + 1)),
                             TRUE, ec)

\* A merge that keeps the next sibling and removes the selected segment
mergeWithNextIntoSibling(ls, sel, ec) ==
    LET selected == getSelectedSegment(ls, sel)
    IN IF ~selected.found THEN EditResult(ls, FALSE, ec)
       ELSE
       LET li == selected.lineIndex
           i == selected.segmentIndex
           segs == ls[li].segments
           segment == segs[i]
       IN IF i >= Len(segs) THEN EditResult(ls, FALSE, ec)
          ELSE LET nextSegment == segs[i + 1]
                   seg2 == [nextSegment EXCEPT
                               !.text = segment.text \o nextSegment.text,
                               !.startIndex = segment.startIndex,
                               !.isError = segment.isError \/ nextSegment.isError,
                               !.isDeleted = segment.isDeleted /\ nextSegment.isDeleted]
               IN EditResult(SetSegments(ls, li,
                                 RemoveAt([segs EXCEPT ![i + 1] = seg2], i)),
                             TRUE, ec)

mergeWithNext(ls, sel, ec) ==
    LET selected == getSelectedSegment(ls, sel)
    IN IF ~selected.found THEN EditResult(ls, FALSE, ec)
       ELSE
       LET li == selected.lineIndex
           i == selected.segmentIndex
           segs == ls[li].segments
           segment == segs[i]
       IN IF i >= Len(segs) THEN EditResult(ls, FALSE, ec)
          ELSE LET nextSegment == segs[i + 1]
                   seg2 == [segment EXCEPT
                               !.text = segment.text \o nextSegment.text,
                               !.endIndex = nextSegment.endIndex,
                               !.isError = segment.isError \/ nextSegment.isError,
                               !.isDeleted = segment.isDeleted /\ nextSegment.isDeleted]
               IN EditResult(SetSegments(ls, li,
                                 RemoveAt([segs EXCEPT ![i] = seg2], i + 1)),
                             TRUE, ec)

\* splitSegment whose new segment starts one offset too far to the right
splitSegmentShifted(ls, sel, ec, side) ==
    LET selected == getSelectedSegment(ls, sel)
    IN IF ~selected.found THEN EditResult(ls, FALSE, ec)
       ELSE
       LET li == selected.lineIndex
           i == selected.segmentIndex
           segs == ls[li].segments
           segment == segs[i]
       IN IF Len(segment.text) < 2 THEN EditResult(ls, FALSE, ec)
          ELSE IF side = "left"
          THEN LET newSegment == [id |-> ec + 1, text |-> <<segment.text[1]>>,
                                  isError |-> segment.isError,
                                  isDeleted |-> segment.isDeleted,
                                  startIndex |-> segment.startIndex + 1,
                                  endIndex |-> segment.startIndex + 1]
                   seg2 == [segment EXCEPT !.text = Tail(segment.text),
                                           !.startIndex = segment.startIndex + 1]
               IN EditResult(SetSegments(ls, li,
                                 InsertAt([segs EXCEPT ![i] = seg2], i, newSegment)),
                             TRUE, ec + 1)
          ELSE LET newSegment == [id |-> ec + 1, text |-> <<Last(segment.text)>>,
                                  isError |-> segment.isError,
                                  isDeleted |-> segment.isDeleted,
                                  startIndex |-> segment.endIndex - 1,
                                  endIndex |-> segment.endIndex]
                   seg2 == [segment EXCEPT !.text = Front(segment.text),
                                           !.endIndex = segment.endIndex - 1]
               IN EditResult(SetSegments(ls, li,
                                 InsertAt([segs EXCEPT ![i] = seg2], i + 1, newSegment)),
                             TRUE, ec + 1)

splitSegment(ls, sel, ec, side) ==
    LET selected == getSelectedSegment(ls, sel)
    IN IF ~selected.found THEN EditResult(ls, FALSE, ec)
       ELSE
       LET li == selected.lineIndex
           i == selected.segmentIndex
           segs == ls[li].segments
           segment == segs[i]
       IN IF Len(segment.text) < 2 THEN EditResult(ls, FALSE, ec)
          ELSE IF side = "left"
          THEN LET newSegment == [id |-> ec + 1, text |-> <<segment.text[1]>>,
                                  isError |-> segment.isError,
                                  isDeleted |-> segment.isDeleted,
                                  startIndex |-> segment.startIndex,
                                  endIndex |-> segment.startIndex + 1]
                   seg2 == [segment EXCEPT !.text = Tail(segment.text),
                                           !.startIndex = segment.startIndex + 1]
               IN EditResult(SetSegments(ls, li,
                                 InsertAt([segs EXCEPT ![i] = seg2], i, newSegment)),
                             TRUE, ec + 1)
          ELSE LET newSegment == [id |-> ec + 1, text |-> <<Last(segment.text)>>,
                                  isError |-> segment.isError,
                                  isDeleted |-> segment.isDeleted,
                                  startIndex |-> segment.endIndex - 1,
                                  endIndex |-> segment.endIndex]
                   seg2 == [segment EXCEPT !.text = Front(segment.text),
                                           !.endIndex = segment.endIndex - 1]
               IN EditResult(SetSegments(ls, li,
                                 InsertAt([segs EXCEPT ![i] = seg2], i + 1, newSegment)),
                             TRUE, ec + 1)

-----------------------------------------------------------------------------
(* Batch merge (App.vue batchMerge) *)

\* String.prototype.trim()
RECURSIVE TrimLeft(_)
TrimLeft(text) ==
    IF Len(text) > 0 /\ text[1] \in Whitespace \cup {Newline}
    THEN TrimLeft(Tail(text)) ELSE text

RECURSIVE TrimRight(_)
TrimRight(text) ==
    IF Len(text) > 0 /\ Last(text) \in Whitespace \cup {Newline}
    THEN TrimRight(Front(text)) ELSE text

Trim(text) == TrimRight(TrimLeft(text))

\* The inner loop without the test of the two flags
RECURSIVE BatchMergeLineAnyFlag(_, _, _, _)
BatchMergeLineAnyFlag(segs, i, textToMerge, direction) ==
    IF i < 1 THEN [segments |-> segs, count |-> 0]
    ELSE
    LET segment == segs[i]
        eligible == segment.text = textToMerge
    IN IF eligible /\ direction = "left" /\ i > 1
       THEN LET prev2 == [segs[i - 1] EXCEPT !.text = @ \o segment.text,
                                              !.endIndex = segment.endIndex]
                rest == BatchMergeLineAnyFlag(RemoveAt([segs EXCEPT ![i - 1] = prev2], i),
                                              i - 1, textToMerge, direction)
            IN [segments |-> rest.segments, count |-> rest.count + 1]
       ELSE IF eligible /\ direction = "right" /\ i < Len(segs)
       THEN LET next2 == [segs[i + 1] EXCEPT !.text = segment.text \o @,
                                              !.startIndex = segment.startIndex]
                rest == BatchMergeLineAnyFlag(RemoveAt([segs EXCEPT ![i + 1] = next2], i),
                                              i - 1, textToMerge, direction)
            IN [segments |-> rest.segments, count |-> rest.count + 1]
       ELSE BatchMergeLineAnyFlag(segs, i - 1, textToMerge, direction)

\* The inner loop stepping over the sibling below a removed segment
RECURSIVE BatchMergeLineSkipping(_, _, _, _)
BatchMergeLineSkipping(segs, i, textToMerge, direction) ==
    IF i < 1 THEN [segments |-> segs, count |-> 0]
    ELSE
    LET segment == segs[i]
        eligible == segment.text = textToMerge /\ ~segment.isDeleted /\ ~segment.isError
    IN IF eligible /\ direction = "left" /\ i > 1
       THEN LET prev2 == [segs[i - 1] EXCEPT !.text = @ \o segment.text,
                                              !.endIndex = segment.endIndex]
                rest == BatchMergeLineSkipping(RemoveAt([segs EXCEPT ![i - 1] = prev2], i),
                                               i - 2, textToMerge, direction)
            IN [segments |-> rest.segments, count |-> rest.count + 1]
       ELSE IF eligible /\ direction = "right" /\ i < Len(segs)
       THEN LET next2 == [segs[i + 1] EXCEPT !.text = segment.text \o @,
                                              !.startIndex = segment.startIndex]
                rest == BatchMergeLineSkipping(RemoveAt([segs EXCEPT ![i + 1] = next2], i),
                                               i - 2, textToMerge, direction)
            IN [segments |-> rest.segments, count |-> rest.count + 1]
       ELSE BatchMergeLineSkipping(segs, i - 1, textToMerge, direction)

\* The inner loop over one line: for (i = length - 1; i >= 0; i--), here
\* with i 1-based; returns the segments and the number of merges
RECURSIVE BatchMergeLine(_, _, _, _)
BatchMergeLine(segs, i, textToMerge, direction) ==
    IF i < 1 THEN [segments |-> segs, count |-> 0]
    ELSE
    LET segment == segs[i]
        eligible == segment.text = textToMerge /\ ~segment.isDeleted /\ ~segment.isError
    IN IF eligible /\ direction = "left" /\ i > 1
       THEN LET prev2 == [segs[i - 1] EXCEPT !.text = @ \o segment.text,
                                              !.endIndex = segment.endIndex]
                rest == BatchMergeLine(RemoveAt([segs EXCEPT ![i - 1] = prev2], i),
                                       i - 1, textToMerge, direction)
            IN [segments |-> rest.segments, count |-> rest.count + 1]
       ELSE IF eligible /\ direction = "right" /\ i < Len(segs)
       THEN LET next2 == [segs[i + 1] EXCEPT !.text = segment.text \o @,
                                              !.startIndex = segment.startIndex]
                rest == BatchMergeLine(RemoveAt([segs EXCEPT ![i + 1] = next2], i),
                                       i - 1, textToMerge, direction)
            IN [segments |-> rest.segments, count |-> rest.count + 1]
       ELSE BatchMergeLine(segs, i - 1, textToMerge, direction)

\* The outer loop: for (const line of lines.value)
RECURSIVE BatchMergeLines(_, _, _)
BatchMergeLines(ls, textToMerge, direction) ==
    IF Len(ls) = 0 THEN [lines |-> <<>>, count |-> 0]
    ELSE LET first == BatchMergeLine(ls[1].segments, Len(ls[1].segments),
                                     textToMerge, direction)
             rest == BatchMergeLines(Tail(ls), textToMerge, direction)
         IN [lines |-> <<[ls[1] EXCEPT !.segments = first.segments]>> \o rest.lines,
             count |-> first.count + rest.count]

-----------------------------------------------------------------------------
(* Session (App.vue) *)

NoSelection == [lineId |-> NULL, segmentId |-> NULL]

\* "select the first segment": the selection is left alone when there is none
SelectFirst(ls, sel) ==
    IF Len(ls) > 0 /\ Len(ls[1].segments) > 0
    THEN [lineId |-> ls[1].id, segmentId |-> ls[1].segments[1].id]
    ELSE sel

\* select the first segment of one line, if it has one
SelectLineFirst(line, sel) ==
    IF Len(line.segments) > 0
    THEN [lineId |-> line.id, segmentId |-> line.segments[1].id]
    ELSE sel

Observed(ls, sel) == [lines |-> ls, selection |-> sel]

Init ==
    /\ lines = <<>>
    /\ selection = NoSelection
    /\ history = <<>>
    /\ isMarking = FALSE
    /\ isTextEditMode = FALSE
    /\ inputText = <<>>
    /\ segmentIdCounter = 0
    /\ lineIdCounter = 0
    /\ editorIdCounter = EditorIdBase
    /\ lastOp = "init"
    /\ steps = 0
    /\ shadow = <<>>
    /\ heap = << <<>> >>
    /\ liveRef = 1
    /\ snapRefs = <<>>
    /\ searchQuery = <<>>
    /\ isSearchOpen = FALSE
    /\ currentMatchIndex = 0
    /\ caseSensitive = FALSE

\* handleStartMarking(text); TextInputArea emits only a non-blank text
handleStartMarking(text) ==
    /\ ~isMarking
    /\ ~IsBlank(text)
    /\ LET parsed == parseText(text)
       IN /\ inputText' = text
          /\ lines' = parsed.lines
          /\ segmentIdCounter' = parsed.sc
          /\ lineIdCounter' = parsed.lc
          /\ selection' = SelectFirst(parsed.lines, selection)
    /\ isMarking' = TRUE
    /\ lastOp' = "startMarking"
    /\ UNCHANGED <<history, isTextEditMode, editorIdCounter, shadow>>

\* A return to the input screen that keeps the history
handleBackToInputKeeping ==
    /\ isMarking
    /\ inputText' = JoinLines([i \in 1..Len(lines) |-> lines[i].originalText])
    /\ lines' = <<>>
    /\ isMarking' = FALSE
    /\ isTextEditMode' = FALSE
    /\ selection' = NoSelection
    /\ lastOp' = "backToInput"
    /\ UNCHANGED <<history, shadow, segmentIdCounter, lineIdCounter, editorIdCounter>>

handleBackToInput ==
    /\ isMarking
    /\ inputText' = JoinLines([i \in 1..Len(lines) |-> lines[i].originalText])
    /\ lines' = <<>>
    /\ isMarking' = FALSE
    /\ isTextEditMode' = FALSE
    /\ selection' = NoSelection
    /\ history' = clearHistory
    /\ shadow' = <<>>
    /\ lastOp' = "backToInput"
    /\ UNCHANGED <<segmentIdCounter, lineIdCounter, editorIdCounter>>

handleClearAll ==
    /\ ~isMarking
    /\ lines' = <<>>
    /\ isMarking' = FALSE
    /\ isTextEditMode' = FALSE
    /\ inputText' = <<>>
    /\ selection' = NoSelection
    /\ history' = clearHistory
    /\ shadow' = <<>>
    /\ lastOp' = "clearAll"
    /\ UNCHANGED <<segmentIdCounter, lineIdCounter, editorIdCounter>>

\* handleSelectSegment(lineId, segmentId), emitted by a rendered segment
handleSelectSegment(lineId, segmentId) ==
    /\ isMarking /\ ~isTextEditMode
    /\ selection' = [lineId |-> lineId, segmentId |-> segmentId]
    /\ lastOp' = "select"
    /\ UNCHANGED <<lines, history, isMarking, isTextEditMode, inputText,
                   segmentIdCounter, lineIdCounter, editorIdCounter, shadow>>

\* Boundary preview (useSegmentPreview)

\* A highlight that is null
NoHighlight == [found |-> FALSE]

\* The emptyResult of previewInfo
emptyResult ==
    [currentSegmentId |-> NULL, currentHighlight |-> NoHighlight,
     adjacentSegmentId |-> NULL, adjacentHighlight |-> NoHighlight]

\* text[0] || '' : the first character as a string, empty for an empty text
FirstCharOf(text) == IF Len(text) > 0 THEN <<text[1]>> ELSE <<>>

\* text.slice(-1) : the last character as a string, empty for an empty text
LastCharOf(text) == IF Len(text) > 0 THEN <<Last(text)>> ELSE <<>>

\* A preview that looks at the neighbour on either side without asking
\* whether it is there
previewInfoEager(ls, sel, editMode) ==
    IF editMode = "none" \/ ~getSelectedSegment(ls, sel).found THEN emptyResult
    ELSE LET a == getSelectedSegment(ls, sel)
             segs == ls[a.lineIndex].segments
             i == a.segmentIndex
             j == IF editMode = "left"
                  THEN (IF i > 1 THEN i - 1 ELSE i)
                  ELSE (IF i < Len(segs) THEN i + 1 ELSE i)
         IN [currentSegmentId |-> segs[i].id,
             currentHighlight |->
                 [found |-> TRUE,
                  char |-> IF editMode = "left" THEN FirstCharOf(segs[i].text)
                           ELSE LastCharOf(segs[i].text),
                  position |-> IF editMode = "left" THEN "start" ELSE "end"],
             adjacentSegmentId |-> segs[j].id,
             adjacentHighlight |->
                 [found |-> TRUE,
                  char |-> IF editMode = "left" THEN LastCharOf(segs[j].text)
                           ELSE FirstCharOf(segs[j].text),
                  position |-> IF editMode = "left" THEN "end" ELSE "start"]]

\* The computed previewInfo for the given lines, selection and edit mode
previewInfo(ls, sel, editMode) ==
    IF editMode = "none" THEN emptyResult
    ELSE IF sel.lineId = NULL \/ sel.segmentId = NULL THEN emptyResult
    ELSE IF ~getSelectedSegment(ls, sel).found THEN emptyResult
    ELSE LET a == getSelectedSegment(ls, sel)
             segs == ls[a.lineIndex].segments
             i == a.segmentIndex
             segment == segs[i]
             hasPrev == i > 1
             hasNext == i < Len(segs)
         IN IF Len(segment.text) = 0 THEN emptyResult
            ELSE IF editMode = "left"
            THEN [currentSegmentId |-> segment.id,
                  currentHighlight |->
                      [found |-> TRUE, char |-> FirstCharOf(segment.text),
                       position |-> "start"],
                  adjacentSegmentId |-> IF hasPrev THEN segs[i - 1].id ELSE NULL,
                  adjacentHighlight |->
                      IF hasPrev
                      THEN [found |-> TRUE, char |-> LastCharOf(segs[i - 1].text),
                            position |-> "end"]
                      ELSE NoHighlight]
            ELSE IF editMode = "right"
            THEN [currentSegmentId |-> segment.id,
                  currentHighlight |->
                      [found |-> TRUE, char |-> LastCharOf(segment.text),
                       position |-> "end"],
                  adjacentSegmentId |-> IF hasNext THEN segs[i + 1].id ELSE NULL,
                  adjacentHighlight |->
                      IF hasNext
                      THEN [found |-> TRUE, char |-> FirstCharOf(segs[i + 1].text),
                            position |-> "start"]
                      ELSE NoHighlight]
            ELSE emptyResult

\* The edit mode in which the arrow keys issue a boundary operation: Z held
\* for the left boundary, X held for the right one
EditModeOf(op) == IF op \in {"expandLeft", "shrinkLeft"} THEN "left" ELSE "right"

\* Search (useSearch): the computed values

\* String.prototype.toLowerCase on this alphabet
ToLower(c) == IF c = "A" THEN "a" ELSE c

toLowerCase(text) == [i \in 1..Len(text) |-> ToLower(text[i])]

\* text.indexOf(query, startIndex) for a non-empty query: the first offset
\* (0-based) at or after startIndex where query occurs, or -1
indexOf(text, query, startIndex) ==
    LET hits == { k \in startIndex..(Len(text) - Len(query)) :
                      SubSeq(text, k + 1, k + Len(query)) = query }
    IN IF hits = {} THEN -1
       ELSE CHOOSE k \in hits : \A h \in hits : k <= h

\* The while loop that resumes after the whole match
RECURSIVE MatchIndicesDisjoint(_, _, _)
MatchIndicesDisjoint(text, query, startIndex) ==
    LET matchIndex == indexOf(text, query, startIndex)
    IN IF matchIndex = -1 THEN <<>>
       ELSE <<matchIndex>> \o MatchIndicesDisjoint(text, query, matchIndex + Len(query))

\* The while loop of one segment: startIndex = matchIndex + 1 after a match
RECURSIVE MatchIndices(_, _, _)
MatchIndices(text, query, startIndex) ==
    LET matchIndex == indexOf(text, query, startIndex)
    IN IF matchIndex = -1 THEN <<>>
       ELSE <<matchIndex>> \o MatchIndices(text, query, matchIndex + 1)

SegmentMatches(line, segment, query, sensitive) ==
    LET text == IF sensitive THEN segment.text ELSE toLowerCase(segment.text)
        found == MatchIndices(text, query, 0)
    IN [p \in 1..Len(found) |->
           [lineId |-> line.id, segmentId |-> segment.id,
            matchIndex |-> found[p], matchLength |-> Len(query)]]

\* results.push in loop order
RECURSIVE Flatten(_)
Flatten(seqs) == IF Len(seqs) = 0 THEN <<>> ELSE seqs[1] \o Flatten(Tail(seqs))

\* The computed `matches` for the given lines, query and case flag
matches(ls, query, sensitive) ==
    IF IsBlank(query) THEN <<>>
    ELSE LET q == IF sensitive THEN query ELSE toLowerCase(query)
         IN Flatten([i \in 1..Len(ls) |->
                Flatten([j \in 1..Len(ls[i].segments) |->
                    SegmentMatches(ls[i], ls[i].segments[j], q, sensitive)])])

\* The computed `currentMatch`: found = FALSE for null
currentMatch(ms, index) ==
    IF Len(ms) = 0 THEN [found |-> FALSE]
    ELSE [found |-> TRUE,
          match |-> ms[(IF index < Len(ms) - 1 THEN index ELSE Len(ms) - 1) + 1]]

\* The watcher on currentMatch (App.vue): a match that is not null is selected
SelectCurrentMatch(ms, index) ==
    IF currentMatch(ms, index).found
    THEN [lineId |-> currentMatch(ms, index).match.lineId,
          segmentId |-> currentMatch(ms, index).match.segmentId]
    ELSE selection

\* What the computed `matches` reads of the lines: the ids and the texts
SearchView(ls) ==
    [i \in 1..Len(ls) |->
        [id |-> ls[i].id,
         segments |-> [j \in 1..Len(ls[i].segments) |->
                          [id |-> ls[i].segments[j].id,
                           text |-> ls[i].segments[j].text]]]]

\* The selection after a handler has turned the lines into `ls` and left the
\* selection at `sel`: with a query in the search bar `matches` is computed
\* again when what it reads has changed, and the watcher on currentMatch
\* selects the segment of a current match that is not null
SelectionAfter(ls, sel) ==
    IF IsBlank(searchQuery) \/ SearchView(ls) = SearchView(lines) THEN sel
    ELSE LET m == currentMatch(matches(ls, searchQuery, caseSensitive), currentMatchIndex)
         IN IF m.found THEN [lineId |-> m.match.lineId, segmentId |-> m.match.segmentId]
            ELSE sel

\* A keyboard command of the segment editor: `r` is what the operation
\* returns on the current lines and selection. The hook runs inside the
\* operation, before its first mutation, so it snapshots the current state.
\* The key listener is on the window, whatever screen is shown. The watcher
\* on the current match of the search runs after the operation.
EditorCommand(name, r) ==
    /\ history' = IF r.hook THEN saveCurrentState(history, lines, selection) ELSE history
    /\ shadow' = IF r.hook THEN Append(shadow, Observed(lines, selection)) ELSE shadow
    /\ lines' = r.lines
    /\ editorIdCounter' = r.ec
    /\ selection' = SelectionAfter(r.lines, selection)
    /\ lastOp' = name
    /\ UNCHANGED <<isMarking, isTextEditMode, inputText,
                   segmentIdCounter, lineIdCounter>>

ExpandLeft == EditorCommand("expandLeft", expandLeft(lines, selection, editorIdCounter))
ShrinkLeft == EditorCommand("shrinkLeft", shrinkLeft(lines, selection, editorIdCounter))
ShrinkRight == EditorCommand("shrinkRight", shrinkRight(lines, selection, editorIdCounter))
ExpandRight == EditorCommand("expandRight", expandRight(lines, selection, editorIdCounter))
DeleteSegment == EditorCommand("deleteSegment", deleteSegment(lines, selection, editorIdCounter))
ToggleError == EditorCommand("toggleError", toggleError(lines, selection, editorIdCounter))
MergeWithNext == EditorCommand("mergeWithNext", mergeWithNext(lines, selection, editorIdCounter))
SplitSegment(side) ==
    EditorCommand("splitSegment", splitSegment(lines, selection, editorIdCounter, side))

\* Click-toggle with a two-state toggle: error -> normal
handleToggleSegmentTwoState(lineId, segmentId) ==
    /\ isMarking /\ ~isTextEditMode
    /\ LET li == FirstIndexOfId(lines, lineId)
           si == IF li = 0 THEN 0 ELSE FirstIndexOfId(lines[li].segments, segmentId)
       IN IF li # 0 /\ si # 0
          THEN /\ history' = saveCurrentState(history, lines, selection)
               /\ shadow' = Append(shadow, Observed(lines, selection))
               /\ lines' = [lines EXCEPT ![li].segments[si] = CycleFlagsTwoState(@)]
          ELSE UNCHANGED <<lines, history, shadow>>
    /\ lastOp' = "toggle"
    /\ UNCHANGED <<selection, isMarking, isTextEditMode, inputText,
                   segmentIdCounter, lineIdCounter, editorIdCounter>>

\* handleToggleSegment(lineId, segmentId): click-toggle
handleToggleSegment(lineId, segmentId) ==
    /\ isMarking /\ ~isTextEditMode
    /\ LET li == FirstIndexOfId(lines, lineId)
           si == IF li = 0 THEN 0 ELSE FirstIndexOfId(lines[li].segments, segmentId)
       IN IF li # 0 /\ si # 0
          THEN /\ history' = saveCurrentState(history, lines, selection)
               /\ shadow' = Append(shadow, Observed(lines, selection))
               /\ lines' = [lines EXCEPT ![li].segments[si] = CycleFlags(@)]
          ELSE UNCHANGED <<lines, history, shadow>>
    /\ lastOp' = "toggle"
    /\ UNCHANGED <<selection, isMarking, isTextEditMode, inputText,
                   segmentIdCounter, lineIdCounter, editorIdCounter>>

\* handleUndo()
handleUndo ==
    /\ LET popped == undo(history)
       IN /\ history' = popped.history
          /\ IF popped.found
             THEN /\ lines' = popped.state.lines
                  /\ selection' = [lineId |-> popped.state.selectedLineId,
                                   segmentId |-> popped.state.selectedSegmentId]
             ELSE UNCHANGED <<lines, selection>>
    /\ shadow' = IF Len(shadow) > 0 THEN Front(shadow) ELSE shadow
    /\ lastOp' = "undo"
    /\ UNCHANGED <<isMarking, isTextEditMode, inputText,
                   segmentIdCounter, lineIdCounter, editorIdCounter>>

\* batchMerge that takes its snapshot after the merges
batchMergeLate(direction, mergeChar) ==
    /\ isMarking
    /\ ~IsBlank(mergeChar)
    /\ LET merged == BatchMergeLines(lines, Trim(mergeChar), direction)
       IN IF merged.count > 0
          THEN /\ history' = saveCurrentState(history, merged.lines, selection)
               /\ shadow' = Append(shadow, Observed(lines, selection))
               /\ lines' = merged.lines
               /\ lastOp' = "batchMerge"
          ELSE /\ lastOp' = "batchMergeNone"
               /\ UNCHANGED <<lines, history, shadow>>
    /\ UNCHANGED <<selection, isMarking, isTextEditMode, inputText,
                   segmentIdCounter, lineIdCounter, editorIdCounter>>

\* batchMerge that reports no match unless it merged more than once
batchMergeShy(direction, mergeChar) ==
    /\ isMarking
    /\ ~IsBlank(mergeChar)
    /\ LET merged == BatchMergeLines(lines, Trim(mergeChar), direction)
       IN IF merged.count > 0
          THEN /\ history' = saveCurrentState(history, lines, selection)
               /\ shadow' = Append(shadow, Observed(lines, selection))
               /\ lines' = merged.lines
               /\ lastOp' = IF merged.count > 1 THEN "batchMerge" ELSE "batchMergeNone"
          ELSE /\ lastOp' = "batchMergeNone"
               /\ UNCHANGED <<lines, history, shadow>>
    /\ UNCHANGED <<selection, isMarking, isTextEditMode, inputText,
                   segmentIdCounter, lineIdCounter, editorIdCounter>>

\* batchMerge(direction) with mergeChar typed into the input beside the buttons
batchMerge(direction, mergeChar) ==
    /\ isMarking
    /\ ~IsBlank(mergeChar)
    /\ LET merged == BatchMergeLines(lines, Trim(mergeChar), direction)
       IN IF merged.count > 0
          THEN /\ history' = saveCurrentState(history, lines, selection)
               /\ shadow' = Append(shadow, Observed(lines, selection))
               /\ lines' = merged.lines
               /\ lastOp' = "batchMerge"
          ELSE /\ lastOp' = "batchMergeNone"
               /\ UNCHANGED <<lines, history, shadow>>
    /\ UNCHANGED <<selection, isMarking, isTextEditMode, inputText,
                   segmentIdCounter, lineIdCounter, editorIdCounter>>

\* newLines = lineTexts.map((t, i) => reParseLine(t, i === 0 ? line.id : undefined))
RECURSIVE ReParseLines(_, _, _, _)
ReParseLines(texts, firstId, sc, lc) ==
    IF Len(texts) = 0 THEN [lines |-> <<>>, sc |-> sc, lc |-> lc]
    ELSE LET first == reParseLine(texts[1], firstId, sc, lc)
             rest == ReParseLines(Tail(texts), NULL, first.sc, first.lc)
         IN [lines |-> <<first.line>> \o rest.lines, sc |-> rest.sc, lc |-> rest.lc]

HasNewline(text) == \E i \in 1..Len(text) : text[i] = Newline

\* handleReParseLine(lineId), emitted by the line's re-parse button
handleReParseLine(lineId) ==
    /\ isMarking
    /\ history' = saveCurrentState(history, lines, selection)
    /\ shadow' = Append(shadow, Observed(lines, selection))
    /\ LET lineIndex == FirstIndexOfId(lines, lineId)
       IN IF lineIndex = 0
          THEN UNCHANGED <<lines, selection, segmentIdCounter, lineIdCounter>>
          ELSE
          LET line == lines[lineIndex]
              text == line.originalText
          IN IF HasNewline(text)
             THEN LET lineTexts == SelectSeq(SplitLines(text), LAMBDA t : ~IsBlank(t))
                  IN IF Len(lineTexts) = 0
                     THEN LET removed == RemoveAt(lines, lineIndex)
                          IN /\ lines' = removed
                             /\ selection' =
                                  IF lineIndex <= Len(removed)
                                  THEN SelectLineFirst(removed[lineIndex], selection)
                                  ELSE IF lineIndex - 1 >= 1
                                  THEN SelectLineFirst(removed[lineIndex - 1], selection)
                                  ELSE selection
                             /\ UNCHANGED <<segmentIdCounter, lineIdCounter>>
                     ELSE LET parsed == ReParseLines(lineTexts, line.id,
                                                     segmentIdCounter, lineIdCounter)
                          IN /\ lines' = SubSeq(lines, 1, lineIndex - 1) \o parsed.lines
                                         \o SubSeq(lines, lineIndex + 1, Len(lines))
                             /\ selection' = SelectLineFirst(parsed.lines[1], selection)
                             /\ segmentIdCounter' = parsed.sc
                             /\ lineIdCounter' = parsed.lc
             ELSE LET parsed == reParseLine(text, line.id, segmentIdCounter, lineIdCounter)
                  IN /\ lines' = [lines EXCEPT ![lineIndex] = parsed.line]
                     /\ selection' = SelectLineFirst(parsed.line, selection)
                     /\ segmentIdCounter' = parsed.sc
                     /\ lineIdCounter' = parsed.lc
    /\ lastOp' = "reParseLine"
    /\ UNCHANGED <<isMarking, isTextEditMode, inputText, editorIdCounter>>

\* handleUpdateLineText(lineId, newText), emitted by the line's textarea
handleUpdateLineText(lineId, newText) ==
    /\ isMarking /\ isTextEditMode
    /\ LET li == FirstIndexOfId(lines, lineId)
       IN IF li # 0
          THEN /\ history' = saveCurrentState(history, lines, selection)
               /\ shadow' = Append(shadow, Observed(lines, selection))
               /\ lines' = [lines EXCEPT ![li].originalText = newText]
          ELSE UNCHANGED <<lines, history, shadow>>
    /\ lastOp' = "updateLineText"
    /\ UNCHANGED <<selection, isMarking, isTextEditMode, inputText,
                   segmentIdCounter, lineIdCounter, editorIdCounter>>

enterTextEditMode ==
    /\ isMarking /\ ~isTextEditMode
    /\ isTextEditMode' = TRUE
    /\ lastOp' = "enterTextEdit"
    /\ UNCHANGED <<lines, selection, history, isMarking, inputText,
                   segmentIdCounter, lineIdCounter, editorIdCounter, shadow>>

\* exitTextEditMode(): reParseAllFromEditedText()
exitTextEditMode ==
    /\ isMarking /\ isTextEditMode
    /\ isTextEditMode' = FALSE
    /\ history' = saveCurrentState(history, lines, selection)
    /\ shadow' = Append(shadow, Observed(lines, selection))
    /\ LET joined == JoinLines([i \in 1..Len(lines) |-> lines[i].originalText])
           parsed == parseText(joined)
       IN /\ inputText' = joined
          /\ lines' = parsed.lines
          /\ segmentIdCounter' = parsed.sc
          /\ lineIdCounter' = parsed.lc
          /\ selection' = SelectFirst(parsed.lines, selection)
    /\ lastOp' = "reParseAllFromEditedText"
    /\ UNCHANGED <<isMarking, editorIdCounter>>

\* handleReParseAll(): confirm(...) answers `confirmed`
handleReParseAll(confirmed) ==
    /\ isMarking
    /\ IF ~confirmed
       THEN /\ lastOp' = "reParseAllDeclined"
            /\ UNCHANGED <<lines, selection, history, shadow,
                           segmentIdCounter, lineIdCounter>>
       ELSE /\ history' = saveCurrentState(history, lines, selection)
            /\ shadow' = Append(shadow, Observed(lines, selection))
            /\ LET parsed == parseText(inputText)
               IN /\ lines' = parsed.lines
                  /\ segmentIdCounter' = parsed.sc
                  /\ lineIdCounter' = parsed.lc
                  /\ selection' = SelectFirst(parsed.lines, selection)
            /\ lastOp' = "reParseAll"
    /\ UNCHANGED <<isMarking, isTextEditMode, inputText, editorIdCounter>>

\* handleReassignIds()
handleReassignIds ==
    /\ isMarking
    /\ LET currentLineIndex == FirstIndexOfId(lines, selection.lineId)
           currentSegmentIndex ==
               IF currentLineIndex = 0 THEN 0
               ELSE FirstIndexOfId(lines[currentLineIndex].segments, selection.segmentId)
           assigned == reassignIds(lines)
           newLineIndex == IF currentLineIndex >= 1 THEN currentLineIndex ELSE 1
       IN /\ lines' = assigned.lines
          /\ segmentIdCounter' = assigned.sc
          /\ lineIdCounter' = assigned.lc
          /\ IF newLineIndex <= Len(assigned.lines)
             THEN LET newLine == assigned.lines[newLineIndex]
                      wanted == IF currentSegmentIndex >= 1 THEN currentSegmentIndex ELSE 1
                  IN selection' =
                       [lineId |-> newLine.id,
                        segmentId |->
                           IF wanted <= Len(newLine.segments)
                           THEN newLine.segments[wanted].id
                           ELSE IF Len(newLine.segments) >= 1
                           THEN newLine.segments[1].id
                           ELSE selection.segmentId]
             ELSE UNCHANGED selection
    /\ lastOp' = "reassignIds"
    /\ UNCHANGED <<history, isMarking, isTextEditMode, inputText, editorIdCounter, shadow>>

-----------------------------------------------------------------------------
(* The session specification *)

\* Documents a session run starts from
SessionDocs ==
    { <<"a", "b", "!">>,
      <<"a", "!", "b">>,
      <<"a", " ", "b">>,
      <<"a", "b", Newline, "a">> }

\* Texts typed into a line's textarea
EditTexts == { <<" ">>, <<"b", Newline, "a">> }

\* Strings typed into the batch-merge input
MergeStrings == { <<"a">>, <<"b", " ">> }

\* (lineId, segmentId) pairs the rendering collaborator can name: the
\* rendered segments
RenderedIds ==
    UNION { { <<lines[i].id, lines[i].segments[j].id>> :
                j \in 1..Len(lines[i].segments) } : i \in 1..Len(lines) }

RenderedLineIds == { lines[i].id : i \in 1..Len(lines) }

\* Every command takes one step of the run's budget
Budget(max) == steps < max /\ steps' = steps + 1 /\ UNCHANGED <<refVars, searchVars>>

Next ==
    \/ Budget(MaxSteps) /\ \E text \in SessionDocs : handleStartMarking(text)
    \/ Budget(MaxSteps) /\ handleBackToInput
    \/ Budget(MaxSteps) /\ handleClearAll
    \/ Budget(MaxSteps) /\ \E p \in RenderedIds : handleSelectSegment(p[1], p[2])
    \/ Budget(MaxSteps) /\ ExpandLeft
    \/ Budget(MaxSteps) /\ ShrinkLeft
    \/ Budget(MaxSteps) /\ ShrinkRight
    \/ Budget(MaxSteps) /\ ExpandRight
    \/ Budget(MaxSteps) /\ DeleteSegment
    \/ Budget(MaxSteps) /\ ToggleError
    \/ Budget(MaxSteps) /\ MergeWithNext
    \/ Budget(MaxSteps) /\ \E side \in {"left", "right"} : SplitSegment(side)
    \/ Budget(MaxSteps) /\ \E p \in RenderedIds : handleToggleSegment(p[1], p[2])
    \/ Budget(MaxSteps) /\ handleUndo
    \/ Budget(MaxSteps) /\ \E direction \in {"left", "right"}, mergeChar \in MergeStrings :
           batchMerge(direction, mergeChar)
    \/ Budget(MaxSteps) /\ \E lineId \in RenderedLineIds : handleReParseLine(lineId)
    \/ Budget(MaxSteps) /\ \E lineId \in RenderedLineIds, newText \in EditTexts :
           handleUpdateLineText(lineId, newText)
    \/ Budget(MaxSteps) /\ enterTextEditMode
    \/ Budget(MaxSteps) /\ exitTextEditMode
    \/ Budget(MaxSteps) /\ \E confirmed \in BOOLEAN : handleReParseAll(confirmed)
    \/ Budget(MaxSteps) /\ handleReassignIds

Spec == Init /\ [][Next]_vars

-----------------------------------------------------------------------------
(* The editor specification: one marking session under the segment editor, *)
(* click-toggle, batch merge and undo                                      *)

NextEdit ==
    \/ Budget(MaxEditSteps) /\ \E text \in SessionDocs : handleStartMarking(text)
    \/ Budget(MaxEditSteps) /\ \E p \in RenderedIds : handleSelectSegment(p[1], p[2])
    \/ Budget(MaxEditSteps) /\ ExpandLeft
    \/ Budget(MaxEditSteps) /\ ShrinkLeft
    \/ Budget(MaxEditSteps) /\ ShrinkRight
    \/ Budget(MaxEditSteps) /\ ExpandRight
    \/ Budget(MaxEditSteps) /\ DeleteSegment
    \/ Budget(MaxEditSteps) /\ ToggleError
    \/ Budget(MaxEditSteps) /\ MergeWithNext
    \/ Budget(MaxEditSteps) /\ \E side \in {"left", "right"} : SplitSegment(side)
    \/ Budget(MaxEditSteps) /\ \E p \in RenderedIds : handleToggleSegment(p[1], p[2])
    \/ Budget(MaxEditSteps) /\ handleUndo
    \/ Budget(MaxEditSteps) /\ \E direction \in {"left", "right"}, mergeChar \in MergeStrings :
           batchMerge(direction, mergeChar)

SpecEdit == Init /\ [][NextEdit]_vars

-----------------------------------------------------------------------------
(* The tokenizer specification: every input text up to MaxLen characters   *)

TokenizerTexts == StringsUpTo(LineChars \cup {Newline}, MaxLen)

NextTok ==
    \/ \E text \in TokenizerTexts :
           handleStartMarking(text) /\ UNCHANGED <<steps, refVars, searchVars>>
    \/ handleBackToInput /\ UNCHANGED <<steps, refVars, searchVars>>
    \/ handleClearAll /\ UNCHANGED <<steps, refVars, searchVars>>

SpecTok == Init /\ [][NextTok]_vars

-----------------------------------------------------------------------------
(* The history specification: saveState called again and again, no undo   *)

NextHist ==
    \/ \E text \in SessionDocs :
           handleStartMarking(text) /\ UNCHANGED <<steps, refVars, searchVars>>
    \/ Len(shadow) < MaxPushes /\ ToggleError /\ UNCHANGED <<steps, refVars, searchVars>>

SpecHist == Init /\ [][NextHist]_vars

-----------------------------------------------------------------------------
(* The reference-level specification. JavaScript arrays and objects are    *)
(* references: lines.value names a line collection on the heap, the editor *)
(* mutates that collection in place, and a history entry names whatever    *)
(* collection saveState stored in it. heap[a] is the content of the        *)
(* collection at address a; `lines` and `history` stay unused here.        *)

\* cloneLines that hands back the collection it was given
cloneLinesShared(hp, ref) == [ref |-> ref, heap |-> hp]

\* cloneLines at reference level: JSON.parse builds a new object graph, so
\* the result is a fresh address holding a structurally equal collection
cloneLinesRef(hp, ref) == [ref |-> Len(hp) + 1, heap |-> Append(hp, cloneLines(hp[ref]))]

\* saveState at reference level: the stack and the heap it leaves
saveStateRef(h, hp, ref, selectedLineId, selectedSegmentId) ==
    LET cloned == cloneLinesRef(hp, ref)
        state == [lines |-> cloned.ref,
                  selectedLineId |-> selectedLineId,
                  selectedSegmentId |-> selectedSegmentId]
        pushed == Append(h, state)
    IN IF Len(cloned.heap[cloned.ref]) = 0 /\ Len(hp[ref]) > 0
       THEN [history |-> h, heap |-> cloned.heap]
       ELSE [history |-> IF Len(pushed) > MAX_HISTORY_SIZE THEN Tail(pushed) ELSE pushed,
             heap |-> cloned.heap]

\* lines.value = parseText(text): a new collection becomes the live one
RefStartMarking(text) ==
    /\ ~isMarking
    /\ ~IsBlank(text)
    /\ LET parsed == parseText(text)
       IN /\ inputText' = text
          /\ heap' = Append(heap, parsed.lines)
          /\ liveRef' = Len(heap) + 1
          /\ segmentIdCounter' = parsed.sc
          /\ lineIdCounter' = parsed.lc
          /\ selection' = SelectFirst(parsed.lines, selection)
    /\ isMarking' = TRUE
    /\ lastOp' = "startMarking"
    /\ UNCHANGED <<lines, history, isTextEditMode, editorIdCounter, shadow, snapRefs>>

RefSelectSegment(lineId, segmentId) ==
    /\ isMarking
    /\ selection' = [lineId |-> lineId, segmentId |-> segmentId]
    /\ lastOp' = "select"
    /\ UNCHANGED <<lines, history, isMarking, isTextEditMode, inputText,
                   segmentIdCounter, lineIdCounter, editorIdCounter, shadow, refVars>>

\* An editor operation: the hook stores a clone, then the operation mutates
\* the live collection in place
RefEditorCommand(name, r) ==
    /\ isMarking
    /\ LET saved == IF r.hook
                    THEN saveStateRef(snapRefs, heap, liveRef,
                                      selection.lineId, selection.segmentId)
                    ELSE [history |-> snapRefs, heap |-> heap]
       IN /\ snapRefs' = saved.history
          /\ heap' = [saved.heap EXCEPT ![liveRef] = r.lines]
    /\ editorIdCounter' = r.ec
    /\ lastOp' = name
    /\ UNCHANGED <<lines, history, selection, isMarking, isTextEditMode, inputText,
                   segmentIdCounter, lineIdCounter, shadow, liveRef>>

\* handleUndo at reference level: lines.value = previousState.lines makes
\* the popped entry's collection the live one
RefUndo ==
    /\ isMarking
    /\ LET popped == undo(snapRefs)
       IN /\ snapRefs' = popped.history
          /\ IF popped.found
             THEN /\ liveRef' = popped.state.lines
                  /\ selection' = [lineId |-> popped.state.selectedLineId,
                                   segmentId |-> popped.state.selectedSegmentId]
             ELSE UNCHANGED <<liveRef, selection>>
    /\ lastOp' = "undo"
    /\ UNCHANGED <<lines, history, isMarking, isTextEditMode, inputText, heap,
                   segmentIdCounter, lineIdCounter, editorIdCounter, shadow>>

LiveLines == heap[liveRef]

LiveIds ==
    UNION { { <<LiveLines[i].id, LiveLines[i].segments[j].id>> :
                j \in 1..Len(LiveLines[i].segments) } : i \in 1..Len(LiveLines) }

RefStep == steps < MaxRefSteps /\ steps' = steps + 1 /\ UNCHANGED searchVars

NextAlias ==
    \/ RefStep /\ \E text \in SessionDocs : RefStartMarking(text)
    \/ RefStep /\ \E p \in LiveIds : RefSelectSegment(p[1], p[2])
    \/ RefStep /\ RefEditorCommand("expandLeft",
                      expandLeft(LiveLines, selection, editorIdCounter))
    \/ RefStep /\ RefEditorCommand("shrinkRight",
                      shrinkRight(LiveLines, selection, editorIdCounter))
    \/ RefStep /\ RefEditorCommand("toggleError",
                      toggleError(LiveLines, selection, editorIdCounter))
    \/ RefStep /\ RefEditorCommand("deleteSegment",
                      deleteSegment(LiveLines, selection, editorIdCounter))
    \/ RefStep /\ RefEditorCommand("mergeWithNext",
                      mergeWithNext(LiveLines, selection, editorIdCounter))
    \/ RefStep /\ RefUndo

SpecAlias == Init /\ [][NextAlias]_vars

-----------------------------------------------------------------------------
(* The reload specification: the page is loaded again in mid-session. The  *)
(* deep watcher on `lines` has stored every change of a non-empty marking   *)
(* session, so what onMounted loads is the current lines and input text;    *)
(* every module starts afresh: counters, selection, history, edit mode.     *)

Reload ==
    /\ isMarking
    /\ Len(lines) > 0
    /\ lines' = cloneLines(lines)
    /\ isMarking' = TRUE
    /\ isTextEditMode' = FALSE
    /\ selection' = NoSelection
    /\ history' = <<>>
    /\ shadow' = <<>>
    /\ segmentIdCounter' = 0
    /\ lineIdCounter' = 0
    /\ editorIdCounter' = EditorIdBase
    /\ lastOp' = "reload"
    /\ UNCHANGED inputText

\* Documents a run with a reload starts from
ReloadDocs == { <<"a", "b", "b">>, <<"a", "b", "!">>, <<"a", "b", " ", "a", "b">> }

NextReload ==
    \/ Budget(MaxReloadSteps) /\ \E text \in ReloadDocs : handleStartMarking(text)
    \/ Budget(MaxReloadSteps) /\ \E p \in RenderedIds : handleSelectSegment(p[1], p[2])
    \/ Budget(MaxReloadSteps) /\ \E side \in {"left", "right"} : SplitSegment(side)
    \/ Budget(MaxReloadSteps) /\ MergeWithNext
    \/ Budget(MaxReloadSteps) /\ Reload

SpecReload == Init /\ [][NextReload]_vars

-----------------------------------------------------------------------------
(* Search (useSearch) and the search bar *)

\* Ctrl+F in marking mode
openSearch ==
    /\ isMarking
    /\ isSearchOpen' = TRUE
    /\ lastOp' = "openSearch"
    /\ UNCHANGED <<lines, selection, history, isMarking, isTextEditMode, inputText,
                   segmentIdCounter, lineIdCounter, editorIdCounter, shadow,
                   searchQuery, currentMatchIndex, caseSensitive>>

\* Typing into the search bar: searchQuery.value = $event; the watcher on
\* searchQuery resets the index, the watcher on currentMatch selects
SetSearchQuery(query) ==
    /\ isSearchOpen
    /\ query # searchQuery
    /\ searchQuery' = query
    /\ currentMatchIndex' = 0
    /\ selection' = SelectCurrentMatch(matches(lines, query, caseSensitive), 0)
    /\ lastOp' = "setSearchQuery"
    /\ UNCHANGED <<lines, history, isMarking, isTextEditMode, inputText,
                   segmentIdCounter, lineIdCounter, editorIdCounter, shadow,
                   isSearchOpen, caseSensitive>>

\* The case button of the search bar: caseSensitive.value = $event
SetCaseSensitive(sensitive) ==
    /\ isSearchOpen
    /\ sensitive # caseSensitive
    /\ caseSensitive' = sensitive
    /\ selection' = SelectCurrentMatch(matches(lines, searchQuery, sensitive),
                                       currentMatchIndex)
    /\ lastOp' = "setCaseSensitive"
    /\ UNCHANGED <<lines, history, isMarking, isTextEditMode, inputText,
                   segmentIdCounter, lineIdCounter, editorIdCounter, shadow,
                   searchQuery, isSearchOpen, currentMatchIndex>>

\* closeSearch()
closeSearch ==
    /\ isSearchOpen
    /\ isSearchOpen' = FALSE
    /\ searchQuery' = <<>>
    /\ currentMatchIndex' = 0
    /\ lastOp' = "closeSearch"
    /\ UNCHANGED <<lines, selection, history, isMarking, isTextEditMode, inputText,
                   segmentIdCounter, lineIdCounter, editorIdCounter, shadow,
                   caseSensitive>>

\* The computed `searchStatus`: "" for a blank query, the no-match text, or
\* the position and the total that the template prints as `position / total`
searchStatus(ms, query, index) ==
    IF IsBlank(query) THEN [kind |-> "empty"]
    ELSE IF Len(ms) = 0 THEN [kind |-> "noMatch"]
    ELSE [kind |-> "position", position |-> index + 1, total |-> Len(ms)]

\* An index that stops at the last match instead of wrapping
nextIndexSaturating(index, n) == IF index + 1 < n THEN index + 1 ELSE index

\* nextMatch: (currentMatchIndex + 1) % matches.length
nextIndex(index, n) == (index + 1) % n

\* prevMatch: the last index from 0, otherwise one less
prevIndex(index, n) == IF index = 0 THEN n - 1 ELSE index - 1

\* The clamped position of currentMatch in a non-empty match list
safeIndex(index, n) == IF index < n - 1 THEN index ELSE n - 1

\* A move of the index over an unchanged match list: the watcher on
\* currentMatch runs when the current match has become another one
MoveMatch(name, index) ==
    LET ms == matches(lines, searchQuery, caseSensitive)
    IN /\ isSearchOpen
       /\ currentMatchIndex' = index
       /\ selection' = IF Len(ms) > 0 /\ safeIndex(index, Len(ms)) # safeIndex(currentMatchIndex, Len(ms))
                       THEN SelectCurrentMatch(ms, index)
                       ELSE selection
       /\ lastOp' = name
       /\ UNCHANGED <<lines, history, isMarking, isTextEditMode, inputText,
                      segmentIdCounter, lineIdCounter, editorIdCounter, shadow,
                      searchQuery, isSearchOpen, caseSensitive>>

\* nextMatch(): Enter in the search bar, or its button
nextMatch ==
    LET n == Len(matches(lines, searchQuery, caseSensitive))
    IN MoveMatch("nextMatch", IF n = 0 THEN currentMatchIndex ELSE nextIndex(currentMatchIndex, n))

\* prevMatch(): Shift+Enter in the search bar, or its button
prevMatch ==
    LET n == Len(matches(lines, searchQuery, caseSensitive))
    IN MoveMatch("prevMatch", IF n = 0 THEN currentMatchIndex ELSE prevIndex(currentMatchIndex, n))

\* Documents and queries of a search run
SearchDocs ==
    { <<"a", "a", "a">>,
      <<"a", "A", "a", " ", "b">>,
      <<"a", "b", Newline, "a", "A">> }

SearchQueries == { <<"a", "a">>, <<"a">>, <<"A">>, <<"a", "A">>, <<" ">>, <<"b", "a">> }

SearchStep == steps < MaxSearchSteps /\ steps' = steps + 1 /\ UNCHANGED refVars

NextSearch ==
    \/ Budget(MaxSearchSteps) /\ \E text \in SearchDocs : handleStartMarking(text)
    \/ SearchStep /\ openSearch
    \/ SearchStep /\ \E query \in SearchQueries : SetSearchQuery(query)
    \/ SearchStep /\ \E sensitive \in BOOLEAN : SetCaseSensitive(sensitive)
    \/ SearchStep /\ closeSearch
    \/ SearchStep /\ nextMatch
    \/ SearchStep /\ prevMatch
    \/ Budget(MaxSearchSteps) /\ ShrinkRight
    \/ Budget(MaxSearchSteps) /\ ExpandRight
    \/ Budget(MaxSearchSteps) /\ \E p \in RenderedIds : handleSelectSegment(p[1], p[2])

SpecSearch == Init /\ [][NextSearch]_vars

-----------------------------------------------------------------------------
(* The batch-merge specification: documents in which a text occurs more     *)
(* than once, marked, merged in batch and undone                             *)

BatchDocs ==
    { <<"a", " ", "a">>,
      <<"a", " ", "a", " ", "a">>,
      <<"a", " ", "b", Newline, "a", " ", "b">> }

NextBatch ==
    \/ Budget(MaxBatchSteps) /\ \E text \in BatchDocs : handleStartMarking(text)
    \/ Budget(MaxBatchSteps) /\ \E p \in RenderedIds : handleSelectSegment(p[1], p[2])
    \/ Budget(MaxBatchSteps) /\ ToggleError
    \/ Budget(MaxBatchSteps) /\ DeleteSegment
    \/ Budget(MaxBatchSteps) /\ \E direction \in {"left", "right"}, mergeChar \in MergeStrings :
           batchMerge(direction, mergeChar)
    \/ Budget(MaxBatchSteps) /\ handleUndo

SpecBatch == Init /\ [][NextBatch]_vars

-----------------------------------------------------------------------------
(* Properties *)

AllSegments(ls) ==
    UNION { { ls[i].segments[j] : j \in 1..Len(ls[i].segments) } : i \in 1..Len(ls) }

AdjacentTiled(segs) ==
    \A i \in 1..(Len(segs) - 1) : segs[i].endIndex = segs[i + 1].startIndex

StartsAtZero(segs) == Len(segs) > 0 => segs[1].startIndex = 0

NoWhitespaceIn(text) == \A i \in 1..Len(text) : text[i] \notin Whitespace

\* The names lastOp gives the boundary, split and merge operations
BoundaryOps == {"expandLeft", "shrinkLeft", "shrinkRight", "expandRight"}
ReshapeOps == BoundaryOps \cup {"splitSegment", "mergeWithNext", "batchMerge"}

RECURSIVE ConcatTexts(_)
ConcatTexts(segs) ==
    IF Len(segs) = 0 THEN <<>> ELSE segs[1].text \o ConcatTexts(Tail(segs))

LineTexts(ls) == [i \in 1..Len(ls) |-> ConcatTexts(ls[i].segments)]

\* C1: in a session started from a text without whitespace (so that every
\* line is tiled contiguously after tokenization), after any sequence of
\* boundary edits, splits, merges and batch merges every adjacent pair of
\* segments satisfies segments[i].endIndex = segments[i+1].startIndex.
C1_TilingPreserved ==
    (isMarking /\ NoWhitespaceIn(inputText))
        => \A i \in 1..Len(lines) : AdjacentTiled(lines[i].segments)

\* C2: no segment is marked error and excluded at the same time.
C2_FlagsExclusive ==
    \A seg \in AllSegments(lines) : ~(seg.isError /\ seg.isDeleted)

PreconditionUnmet(op) ==
    LET selected == getSelectedSegment(lines, selection)
    IN /\ selected.found
       /\ LET segs == lines[selected.lineIndex].segments
              segment == segs[selected.segmentIndex]
          IN \/ op = "expandLeft" /\ selected.segmentIndex = 1
             \/ op = "expandRight" /\ selected.segmentIndex = Len(segs)
             \/ op \in {"shrinkLeft", "shrinkRight"} /\ Len(segment.text) = 1
             \/ op = "splitSegment" /\ Len(segment.text) < 2
             \/ op = "mergeWithNext" /\ selected.segmentIndex = Len(segs)

\* C4: an editor operation whose precondition is not met does not invoke the
\* before-action hook: the history stack and the lines are as before.
C4_NoOpSkipsHook ==
    [][PreconditionUnmet(lastOp') => (history' = history /\ lines' = lines)]_vars

\* C5: all segment ids in the live line collection are pairwise distinct.
C5_UniqueSegmentIds ==
    \A i1, i2 \in 1..Len(lines) :
        \A j1 \in 1..Len(lines[i1].segments), j2 \in 1..Len(lines[i2].segments) :
            lines[i1].segments[j1].id = lines[i2].segments[j2].id
                => (i1 = i2 /\ j1 = j2)

\* C8: boundary edits, splits, merges, batch merges, toggleError and
\* deleteSegment conserve every line's characters: the concatenation of the
\* line's segment texts is the same after the operation as before it.
C8_CharactersConserved ==
    [][lastOp' \in ReshapeOps \cup {"toggleError", "deleteSegment"}
          => LineTexts(lines') = LineTexts(lines)]_vars

\* C8 witness: expandLeft has moved a character out of the previous segment
C8_Witness ==
    /\ lastOp = "expandLeft"
    /\ Len(history) > 0
    /\ LineTexts(lines) = LineTexts(Last(history).lines)
    /\ lines # Last(history).lines

\* C9: after every completed editor operation or batch merge no segment in
\* any line has zero-length text.
C9_NoEmptySegment ==
    \A seg \in AllSegments(lines) : Len(seg.text) > 0

\* C9 witness: an expand has emptied a neighbour, which is gone from the line
C9_Witness ==
    /\ lastOp \in {"expandLeft", "expandRight"}
    /\ Len(history) > 0
    /\ Len(Last(history).lines) = Len(lines)
    /\ \E i \in 1..Len(lines) :
           Len(lines[i].segments) < Len(Last(history).lines[i].segments)

GapIsWhitespace(text, from, to) ==
    /\ from <= to
    /\ \A k \in (from + 1)..to : text[k] \in Whitespace

SnapshotOf(o) ==
    [lines |-> o.lines,
     selectedLineId |-> o.selection.lineId,
     selectedSegmentId |-> o.selection.segmentId]

Min(a, b) == IF a < b THEN a ELSE b

\* C6: after n saveState calls and no undo the stack holds min(n, 50)
\* entries, and they are the most recent min(n, 50) snapshots in push order.
C6_HistoryBounded ==
    /\ Len(history) = Min(Len(shadow), MAX_HISTORY_SIZE)
    /\ \A i \in 1..Len(history) :
           history[i] = SnapshotOf(shadow[Len(shadow) - Len(history) + i])

\* C6 witness: 60 pushes have left 50 entries
C6_Witness == Len(shadow) = 60 /\ Len(history) = 50 /\ lastOp = "toggleError"

\* C7: snapshots are independent of the live collection. Whatever a command
\* does, each collection that is on the stack before and after it has the
\* same content afterwards, and the live collection is never one that an
\* entry of the stack refers to.
C7_SnapshotsIndependent ==
    [][/\ \A i \in 1..Len(snapRefs), j \in 1..Len(snapRefs') :
              snapRefs'[j].lines = snapRefs[i].lines
                  => heap'[snapRefs'[j].lines] = heap[snapRefs[i].lines]
       /\ \A j \in 1..Len(snapRefs') : snapRefs'[j].lines # liveRef']_vars

\* C7 witness: undo has installed a popped snapshot as the live collection,
\* a later operation has changed the live collection in place, and the stack
\* still holds a snapshot
C7_Witness ==
    /\ lastOp \in {"toggleError", "deleteSegment"}
    /\ Len(snapRefs) >= 2
    /\ liveRef > 2
    /\ heap[liveRef] # heap[snapRefs[Len(snapRefs)].lines]

\* The segment the selection names (only where getSelectedSegment finds one)
SelectedIn(ls, sel) ==
    LET selected == getSelectedSegment(ls, sel)
    IN ls[selected.lineIndex].segments[selected.segmentIndex]

\* C11: toggleError advances the three-state cycle of the selected segment,
\* (false,false) -> (true,false) -> (false,true) -> (false,false), and
\* changes nothing else: no other field of the segment, no other segment.
C11_ToggleErrorCycle ==
    [][(/\ lastOp' = "toggleError"
        /\ getSelectedSegment(lines, selection).found
        /\ ~(SelectedIn(lines, selection).isError /\ SelectedIn(lines, selection).isDeleted))
          => LET selected == getSelectedSegment(lines, selection)
                 old == SelectedIn(lines, selection)
                 new == IF ~old.isError /\ ~old.isDeleted
                        THEN [old EXCEPT !.isError = TRUE]
                        ELSE IF old.isError
                        THEN [old EXCEPT !.isError = FALSE, !.isDeleted = TRUE]
                        ELSE [old EXCEPT !.isDeleted = FALSE]
             IN lines' = [lines EXCEPT
                            ![selected.lineIndex].segments[selected.segmentIndex] = new]]_vars

\* C11 witness: three toggleError calls on a normal segment have gone through
\* error and excluded and are back at normal
C11_Witness ==
    /\ lastOp = "toggleError"
    /\ Len(history) >= 3
    /\ getSelectedSegment(lines, selection).found
    /\ LET n == Len(history)
           Flags(ls) == <<SelectedIn(ls, selection).isError,
                          SelectedIn(ls, selection).isDeleted>>
       IN /\ \A k \in (n - 2)..n :
                 /\ history[k].selectedSegmentId = selection.segmentId
                 /\ getSelectedSegment(history[k].lines, selection).found
          /\ Flags(history[n - 2].lines) = <<FALSE, FALSE>>
          /\ Flags(history[n - 1].lines) = <<TRUE, FALSE>>
          /\ Flags(history[n].lines) = <<FALSE, TRUE>>
          /\ Flags(lines) = <<FALSE, FALSE>>
          /\ lines = history[n - 2].lines

\* C12: mergeWithNext on a selected segment that is not the last of its line
\* replaces it and its next sibling by one segment: the selected segment's
\* id and startIndex, both texts concatenated, the sibling's endIndex,
\* isError the OR and isDeleted the AND of the two flags; the line has one
\* segment fewer and nothing else changes.
C12_MergeWithNext ==
    [][(/\ lastOp' = "mergeWithNext"
        /\ getSelectedSegment(lines, selection).found
        /\ getSelectedSegment(lines, selection).segmentIndex
               < Len(lines[getSelectedSegment(lines, selection).lineIndex].segments))
          => LET selected == getSelectedSegment(lines, selection)
                 li == selected.lineIndex
                 i == selected.segmentIndex
                 segs == lines[li].segments
                 merged == [id |-> segs[i].id,
                            text |-> segs[i].text \o segs[i + 1].text,
                            startIndex |-> segs[i].startIndex,
                            endIndex |-> segs[i + 1].endIndex,
                            isError |-> segs[i].isError \/ segs[i + 1].isError,
                            isDeleted |-> segs[i].isDeleted /\ segs[i + 1].isDeleted]
             IN /\ Len(lines') = Len(lines)
                /\ \A k \in 1..Len(lines) : k # li => lines'[k] = lines[k]
                /\ lines'[li].id = lines[li].id
                /\ lines'[li].originalText = lines[li].originalText
                /\ Len(lines'[li].segments) = Len(segs) - 1
                /\ lines'[li].segments =
                       SubSeq(segs, 1, i - 1) \o <<merged>> \o SubSeq(segs, i + 2, Len(segs))]_vars

\* C12 witness: a normal segment has been merged with an error segment and
\* the result is an error segment that is not excluded
C12_Witness ==
    /\ lastOp = "mergeWithNext"
    /\ Len(history) > 0
    /\ getSelectedSegment(lines, selection).found
    /\ getSelectedSegment(Last(history).lines, selection).found
    /\ LET before == Last(history).lines
           selected == getSelectedSegment(before, selection)
           segs == before[selected.lineIndex].segments
           i == selected.segmentIndex
       IN /\ i < Len(segs)
          /\ ~segs[i].isError /\ ~segs[i].isDeleted
          /\ segs[i + 1].isError
          /\ SelectedIn(lines, selection).isError
          /\ ~SelectedIn(lines, selection).isDeleted
          /\ SelectedIn(lines, selection).text = segs[i].text \o segs[i + 1].text

SegmentIds(ls) == { seg.id : seg \in AllSegments(ls) }

\* The shape splitSegment(side) is to leave in the place of `old`, given the
\* new segment `new` and the shortened original `orig`
SplitShape(old, new, orig, side) ==
    /\ orig.id = old.id
    /\ new.isError = old.isError /\ new.isDeleted = old.isDeleted
    /\ orig.isError = old.isError /\ orig.isDeleted = old.isDeleted
    /\ IF side = "left"
       THEN /\ new.text = <<old.text[1]>>
            /\ orig.text = Tail(old.text)
            /\ new.startIndex = old.startIndex
            /\ new.endIndex = orig.startIndex
            /\ orig.endIndex = old.endIndex
       ELSE /\ new.text = <<Last(old.text)>>
            /\ orig.text = Front(old.text)
            /\ orig.startIndex = old.startIndex
            /\ orig.endIndex = new.startIndex
            /\ new.endIndex = old.endIndex
    /\ new.endIndex = new.startIndex + 1

\* C13: splitSegment(side) on a selected segment of text length >= 2 moves
\* one boundary character into a brand-new segment with a fresh id, placed
\* immediately before (left) or after (right) the original; the new segment
\* copies the original's flags, the two ranges partition the original's
\* range, and the selection still identifies the shortened original.
C13_SplitSegment ==
    [][(/\ lastOp' = "splitSegment"
        /\ getSelectedSegment(lines, selection).found
        /\ Len(SelectedIn(lines, selection).text) >= 2)
          => LET selected == getSelectedSegment(lines, selection)
                 li == selected.lineIndex
                 i == selected.segmentIndex
                 segs == lines[li].segments
                 segs2 == lines'[li].segments
             IN /\ Len(lines') = Len(lines)
                /\ \A k \in 1..Len(lines) : k # li => lines'[k] = lines[k]
                /\ Len(segs2) = Len(segs) + 1
                /\ SubSeq(segs2, 1, i - 1) = SubSeq(segs, 1, i - 1)
                /\ SubSeq(segs2, i + 2, Len(segs2)) = SubSeq(segs, i + 1, Len(segs))
                /\ \/ /\ SplitShape(segs[i], segs2[i], segs2[i + 1], "left")
                      /\ segs2[i].id \notin SegmentIds(lines)
                      /\ getSelectedSegment(lines', selection').found
                      /\ getSelectedSegment(lines', selection').lineIndex = li
                      /\ getSelectedSegment(lines', selection').segmentIndex = i + 1
                   \/ /\ SplitShape(segs[i], segs2[i + 1], segs2[i], "right")
                      /\ segs2[i + 1].id \notin SegmentIds(lines)
                      /\ getSelectedSegment(lines', selection').found
                      /\ getSelectedSegment(lines', selection').lineIndex = li
                      /\ getSelectedSegment(lines', selection').segmentIndex = i]_vars

\* The selection a history entry holds
SelectionOf(state) ==
    [lineId |-> state.selectedLineId, segmentId |-> state.selectedSegmentId]

\* Between the snapshots `pre` and `mid` the segment selected in `pre`, of
\* text length >= 2, gave its first character to a new segment placed before
\* it, and in `mid` that new segment is the selected one
LeftSplitBetween(pre, mid) ==
    LET a == getSelectedSegment(pre.lines, SelectionOf(pre))
        b == getSelectedSegment(mid.lines, SelectionOf(mid))
    IN /\ a.found /\ b.found
       /\ a.lineIndex = b.lineIndex /\ a.segmentIndex = b.segmentIndex
       /\ LET segs == pre.lines[a.lineIndex].segments
              segs2 == mid.lines[a.lineIndex].segments
              i == a.segmentIndex
          IN /\ Len(segs[i].text) >= 2
             /\ Len(segs2) = Len(segs) + 1
             /\ segs2[i].id \notin SegmentIds(pre.lines)
             /\ segs2[i + 1].id = segs[i].id
             /\ segs2[i].text = <<segs[i].text[1]>>
             /\ segs2[i + 1].text = Tail(segs[i].text)

\* The current lines and selection, in the shape of a history entry
CurrentState ==
    [lines |-> lines,
     selectedLineId |-> selection.lineId,
     selectedSegmentId |-> selection.segmentId]

\* C14: split/merge round trip. After splitSegment('left') on a segment of
\* text length >= 2 (the snapshot the split pushed is the last of the
\* history, and the new first segment is the selected one), a mergeWithNext
\* step leaves the line with as many segments as before the split and, in
\* the original position, one segment with the original text, startIndex and
\* endIndex.
C14_SplitMergeRoundTrip ==
    [][(/\ Len(history) >= 1
        /\ LeftSplitBetween(Last(history), CurrentState)
        /\ lastOp' = "mergeWithNext")
          => LET pre == Last(history)
                 a == getSelectedSegment(pre.lines, SelectionOf(pre))
                 old == pre.lines[a.lineIndex].segments[a.segmentIndex]
                 now == lines'[a.lineIndex].segments
             IN /\ Len(now) = Len(pre.lines[a.lineIndex].segments)
                /\ now[a.segmentIndex].text = old.text
                /\ now[a.segmentIndex].startIndex = old.startIndex
                /\ now[a.segmentIndex].endIndex = old.endIndex]_vars

\* C14 witness: an error segment was split on the left (the new segment
\* copied the flag), the new first segment was selected and merged with the
\* rest: the merge pushed the state the split had left, and changed it
C14_Witness ==
    /\ lastOp = "mergeWithNext"
    /\ Len(history) >= 2
    /\ LeftSplitBetween(history[Len(history) - 1], history[Len(history)])
    /\ selection = SelectionOf(history[Len(history)])
    /\ lines # history[Len(history)].lines
    /\ SelectedIn(history[Len(history)].lines, SelectionOf(history[Len(history)])).isError
    /\ SelectedIn(lines, selection).isError
    /\ Len(SelectedIn(lines, selection).text) >= 2

\* Between the snapshots `pre` and `mid` the selected segment took the last
\* character of its previous sibling, whose text had length >= 2 (so that no
\* segment was removed), and the same segment is still selected
ExpandLeftBetween(pre, mid) ==
    LET a == getSelectedSegment(pre.lines, SelectionOf(pre))
        b == getSelectedSegment(mid.lines, SelectionOf(mid))
    IN /\ a.found /\ b.found
       /\ SelectionOf(pre) = SelectionOf(mid)
       /\ a.lineIndex = b.lineIndex /\ a.segmentIndex = b.segmentIndex
       /\ a.segmentIndex > 1
       /\ LET segs == pre.lines[a.lineIndex].segments
              segs2 == mid.lines[a.lineIndex].segments
              i == a.segmentIndex
          IN /\ Len(segs[i - 1].text) >= 2
             /\ Len(segs2) = Len(segs)
             /\ segs2[i - 1].text = Front(segs[i - 1].text)
             /\ segs2[i].text = <<Last(segs[i - 1].text)>> \o segs[i].text

\* C15: expandLeft and shrinkLeft are inverses on text. When the selected
\* segment has a previous sibling of text length >= 2, expandLeft followed
\* by shrinkLeft on the same selected segment restores the texts of the
\* previous sibling and of the selected segment.
C15_ExpandShrinkLeftInverse ==
    (/\ lastOp = "shrinkLeft"
     /\ Len(history) >= 2
     /\ ExpandLeftBetween(history[Len(history) - 1], history[Len(history)]))
        => LET pre == history[Len(history) - 1]
               a == getSelectedSegment(pre.lines, SelectionOf(pre))
               segs == pre.lines[a.lineIndex].segments
               now == lines[a.lineIndex].segments
               i == a.segmentIndex
           IN /\ Len(now) = Len(segs)
              /\ now[i - 1].text = segs[i - 1].text
              /\ now[i].text = segs[i].text

\* C15 witness: expandLeft took a character from a two-character sibling and
\* shrinkLeft has given it back
C15_Witness ==
    /\ lastOp = "shrinkLeft"
    /\ Len(history) >= 2
    /\ ExpandLeftBetween(history[Len(history) - 1], history[Len(history)])
    /\ LineTexts(lines) = LineTexts(history[Len(history) - 1].lines)
    /\ lines # history[Len(history)].lines

\* The names lastOp gives the eight operations of the segment editor
EditorOps == BoundaryOps \cup {"deleteSegment", "toggleError", "splitSegment", "mergeWithNext"}

\* The selection names a segment of a line of the collection
SelectionValid(ls, sel) ==
    \E i \in 1..Len(ls) :
        /\ ls[i].id = sel.lineId
        /\ \E j \in 1..Len(ls[i].segments) : ls[i].segments[j].id = sel.segmentId

\* C16: when the selection is (null, null) or names a line or segment that
\* is not in the live collection, each of the eight editor operations leaves
\* the lines, the selection and the history stack unchanged (the
\* before-action hook is not invoked).
C16_InvalidSelectionNoOp ==
    [][(lastOp' \in EditorOps /\ ~SelectionValid(lines, selection))
          => /\ lines' = lines
             /\ selection' = selection
             /\ history' = history]_vars

\* C16 witness: an editor operation was called while the selection named a
\* segment that a batch merge had removed from the collection
C16_Witness ==
    /\ lastOp \in EditorOps
    /\ Len(lines) > 0
    /\ selection.segmentId # NULL
    /\ ~SelectionValid(lines, selection)

\* The names lastOp gives a batchMerge call: with merges, and without
BatchOps == {"batchMerge", "batchMergeNone"}

\* C17: batchMerge never merges away a segment that is marked as an error or
\* excluded: every such segment of a line is in that line after the call,
\* with the same id and the same flags.
C17_BatchMergeSparesMarked ==
    [][lastOp' \in BatchOps
          => /\ Len(lines') = Len(lines)
             /\ \A i \in 1..Len(lines) :
                  \A j \in 1..Len(lines[i].segments) :
                     LET seg == lines[i].segments[j]
                     IN (seg.isError \/ seg.isDeleted)
                           => \E k \in 1..Len(lines'[i].segments) :
                                 LET kept == lines'[i].segments[k]
                                 IN /\ kept.id = seg.id
                                    /\ kept.isError = seg.isError
                                    /\ kept.isDeleted = seg.isDeleted]_vars

\* C17 witness: a batch merge has merged a segment away while an error
\* segment with exactly the same text is still in the collection
C17_Witness ==
    /\ lastOp = "batchMerge"
    /\ Len(history) > 0
    /\ \E e \in AllSegments(Last(history).lines), g \in AllSegments(Last(history).lines) :
           /\ e.isError
           /\ g.text = e.text
           /\ g.id \notin SegmentIds(lines)
           /\ e.id \in SegmentIds(lines)

\* C18: a batchMerge call that merges anything pushes exactly one snapshot,
\* taken before the first merge, so that one undo restores the whole
\* collection as it was before the call; a call that merges nothing pushes
\* no snapshot.
C18_BatchMergeOneSnapshot ==
    [][lastOp' \in BatchOps
          => IF lines' # lines
             THEN /\ Len(history') = Len(history) + 1
                  /\ SubSeq(history', 1, Len(history)) = history
                  /\ Last(history') = SnapshotOf(Observed(lines, selection))
                  /\ undo(history').found
                  /\ undo(history').state.lines = lines
                  /\ undo(history').history = history
             ELSE history' = history]_vars

\* C18 witness: one batch merge has merged on two lines and the stack holds
\* the single snapshot of the collection before the call
C18_Witness ==
    /\ lastOp = "batchMerge"
    /\ Len(history) = 1
    /\ Len(lines) = 2
    /\ Len(history[1].lines) = 2
    /\ \A i \in 1..2 : Len(lines[i].segments) < Len(history[1].lines[i].segments)

\* C19: for a non-blank target, batchMerge signals "no eligible matches"
\* exactly when it merged nothing, and then the lines, the selection and the
\* history stack are unchanged.
C19_BatchMergeNoMatch ==
    [][lastOp' \in BatchOps
          => /\ (lastOp' = "batchMergeNone") <=> (lines' = lines)
             /\ (lastOp' = "batchMergeNone")
                   => (selection' = selection /\ history' = history)]_vars

\* C19 witness: in a line of two segments "a", the first an error segment,
\* a call has found nothing to merge and signalled it; the stack holds only
\* the snapshot of the earlier toggle
C19_Witness ==
    /\ lastOp = "batchMergeNone"
    /\ Len(lines) = 1
    /\ Len(lines[1].segments) = 2
    /\ \A j \in 1..2 : lines[1].segments[j].text = <<"a">>
    /\ lines[1].segments[1].isError
    /\ Len(history) = 1

\* query occurs in text at the 0-based offset k
OccursAt(text, query, k) ==
    /\ k + Len(query) <= Len(text)
    /\ SubSeq(text, k + 1, k + Len(query)) = query

\* Both sides as they are compared: lower-cased unless case-sensitive
Folded(text) == IF caseSensitive THEN text ELSE toLowerCase(text)

\* The (line, segment, offset) positions at which the query occurs
Occurrences ==
    { t \in UNION { UNION { { <<i, j, k>> : k \in 0..(Len(lines[i].segments[j].text) - 1) } :
                        j \in 1..Len(lines[i].segments) } : i \in 1..Len(lines) } :
        OccursAt(Folded(lines[t[1]].segments[t[2]].text), Folded(searchQuery), t[3]) }

\* The position a match names
PositionOf(m) ==
    LET i == FirstIndexOfId(lines, m.lineId)
    IN <<i, FirstIndexOfId(lines[i].segments, m.segmentId), m.matchIndex>>

LexLess(s, t) ==
    \/ s[1] < t[1]
    \/ s[1] = t[1] /\ s[2] < t[2]
    \/ s[1] = t[1] /\ s[2] = t[2] /\ s[3] < t[3]

\* C20: for a non-blank query the match list is exactly the occurrences of
\* the query inside single segments (lower-cased on both sides unless
\* case-sensitive), overlapping ones included, in line order, then segment
\* order, then ascending offset, each once.
C20_MatchesAreOccurrences ==
    ~IsBlank(searchQuery)
        => LET ms == matches(lines, searchQuery, caseSensitive)
           IN /\ \A p \in 1..Len(ms) :
                     /\ FirstIndexOfId(lines, ms[p].lineId) # 0
                     /\ ms[p].matchLength = Len(searchQuery)
              /\ { PositionOf(ms[p]) : p \in 1..Len(ms) } = Occurrences
              /\ Len(ms) = Cardinality(Occurrences)
              /\ \A p, q \in 1..Len(ms) :
                     p < q => LexLess(PositionOf(ms[p]), PositionOf(ms[q]))

\* C20 witness: the case-sensitive query "aa" in the text "aaa" has the two
\* overlapping matches at offsets 0 and 1, and the first one was selected
C20_Witness ==
    /\ lastOp = "setSearchQuery"
    /\ caseSensitive
    /\ searchQuery = <<"a", "a">>
    /\ Len(lines) = 1
    /\ lines[1].segments[1].text = <<"a", "a", "a">>
    /\ LET ms == matches(lines, searchQuery, caseSensitive)
       IN /\ Len(ms) = 2
          /\ ms[1].matchIndex = 0
          /\ ms[2].matchIndex = 1
          /\ selection.segmentId = ms[1].segmentId

\* The number of matches of the current query in the current lines
MatchCount == Len(matches(lines, searchQuery, caseSensitive))

\* The index after k applications of nextMatch over n matches
RECURSIVE NextTimes(_, _, _)
NextTimes(index, n, k) ==
    IF k = 0 THEN index ELSE NextTimes(nextIndex(index, n), n, k - 1)

\* C21: nextMatch and prevMatch cycle circularly. With N >= 1 matches and the
\* index within 0..N-1, a nextMatch step moves index i to (i+1) mod N and a
\* prevMatch step moves it to (i-1) mod N; N - 1 further nextMatch calls
\* bring the index back to i, and prevMatch on the result of nextMatch gives
\* i again. With zero matches both steps leave the index unchanged.
C21_MatchIndexCycles ==
    [][LET n == MatchCount
           i == currentMatchIndex
       IN /\ (lastOp' \in {"nextMatch", "prevMatch"} /\ n = 0)
                => currentMatchIndex' = i
          /\ (lastOp' = "nextMatch" /\ n >= 1 /\ i \in 0..(n - 1))
                => /\ currentMatchIndex' = (IF i = n - 1 THEN 0 ELSE i + 1)
                   /\ NextTimes(currentMatchIndex', n, n - 1) = i
                   /\ prevIndex(currentMatchIndex', n) = i
          /\ (lastOp' = "prevMatch" /\ n >= 1 /\ i \in 0..(n - 1))
                => /\ currentMatchIndex' = (IF i = 0 THEN n - 1 ELSE i - 1)
                   /\ nextIndex(currentMatchIndex', n) = i]_vars

\* C21 witness: with three matches nextMatch has wrapped from the last match
\* to the first, which the watcher has selected
C21_Witness ==
    /\ lastOp = "nextMatch"
    /\ MatchCount = 3
    /\ currentMatchIndex = 0
    /\ Len(history) = 0
    /\ selection = SelectCurrentMatch(matches(lines, searchQuery, caseSensitive), 0)
    /\ selection # NoSelection

\* The status text of the search bar in the current state
CurrentStatus ==
    searchStatus(matches(lines, searchQuery, caseSensitive), searchQuery, currentMatchIndex)

\* C22: the reported position is in range. Whenever the match list is not
\* empty, the 1-based position of the status text lies between 1 and the
\* reported total, also after the list has shrunk under the same query.
C22_StatusInRange ==
    MatchCount > 0 =>
        /\ CurrentStatus.kind = "position"
        /\ CurrentStatus.position >= 1
        /\ CurrentStatus.position <= CurrentStatus.total

\* The segment before (offset -1) or after (offset 1) the selected one in ls
NeighbourIn(ls, sel, offset) ==
    LET a == getSelectedSegment(ls, sel)
    IN ls[a.lineIndex].segments[a.segmentIndex + offset]

\* The selected segment has a segment at the given offset in ls
HasNeighbour(ls, sel, offset) ==
    LET a == getSelectedSegment(ls, sel)
    IN a.found /\ a.segmentIndex + offset \in 1..Len(ls[a.lineIndex].segments)

\* C23: the preview names the character that moves. When a boundary
\* operation is executed in a state in which the preview of its edit mode
\* reports a highlight for the segment the operation takes the character
\* from (the selected segment for a shrink, the neighbour for an expand),
\* exactly the highlighted character moves: the selected segment's first to
\* the end of the segment before it (shrinkLeft), the previous sibling's last
\* to the front of the selected segment (expandLeft), the selected segment's
\* last to the front of the segment after it (shrinkRight), the next
\* sibling's first to the end of the selected segment (expandRight).
C23_PreviewNamesMovedCharacter ==
    [][lastOp' \in BoundaryOps =>
        LET p == previewInfo(lines, selection, EditModeOf(lastOp'))
            old == SelectedIn(lines, selection)
            new == SelectedIn(lines', selection')
        IN /\ (lastOp' = "shrinkLeft" /\ p.currentHighlight.found)
                => /\ p.currentHighlight.char = <<old.text[1]>>
                   /\ p.currentHighlight.position = "start"
                   /\ new.text = Tail(old.text)
                   /\ HasNeighbour(lines', selection', -1)
                   /\ NeighbourIn(lines', selection', -1).text =
                        (IF HasNeighbour(lines, selection, -1)
                         THEN NeighbourIn(lines, selection, -1).text ELSE <<>>)
                        \o p.currentHighlight.char
           /\ (lastOp' = "expandLeft" /\ p.adjacentHighlight.found)
                => /\ p.adjacentHighlight.char = <<Last(NeighbourIn(lines, selection, -1).text)>>
                   /\ p.adjacentHighlight.position = "end"
                   /\ new.text = p.adjacentHighlight.char \o old.text
           /\ (lastOp' = "shrinkRight" /\ p.currentHighlight.found)
                => /\ p.currentHighlight.char = <<Last(old.text)>>
                   /\ p.currentHighlight.position = "end"
                   /\ new.text = Front(old.text)
                   /\ HasNeighbour(lines', selection', 1)
                   /\ NeighbourIn(lines', selection', 1).text =
                        p.currentHighlight.char \o
                        (IF HasNeighbour(lines, selection, 1)
                         THEN NeighbourIn(lines, selection, 1).text ELSE <<>>)
           /\ (lastOp' = "expandRight" /\ p.adjacentHighlight.found)
                => /\ p.adjacentHighlight.char = <<NeighbourIn(lines, selection, 1).text[1]>>
                   /\ p.adjacentHighlight.position = "start"
                   /\ new.text = old.text \o p.adjacentHighlight.char]_vars

\* Both highlights of a preview are null
NoHighlights(p) == ~p.currentHighlight.found /\ ~p.adjacentHighlight.found

\* The lines with the text of the selected segment emptied
WithSelectedEmptied(ls, sel) ==
    LET a == getSelectedSegment(ls, sel)
    IN [ls EXCEPT ![a.lineIndex].segments[a.segmentIndex].text = <<>>]

EditModes == {"none", "left", "right"}

\* C24: the null highlights of the preview. The preview is a value derived
\* from lines, selection and edit mode. Both highlights are null when the
\* edit mode is none, when the selection names no segment of the lines, and
\* when the selected segment's text is empty; the neighbour's highlight is
\* null when the selected segment has no previous sibling in mode left, or no
\* next sibling in mode right.
C24_PreviewNullHighlights ==
    /\ NoHighlights(previewInfo(lines, selection, "none"))
    /\ ~SelectionValid(lines, selection)
          => \A m \in EditModes : NoHighlights(previewInfo(lines, selection, m))
    /\ SelectionValid(lines, selection)
          => /\ \A m \in EditModes :
                   NoHighlights(previewInfo(WithSelectedEmptied(lines, selection), selection, m))
             /\ ~HasNeighbour(lines, selection, -1)
                   => ~previewInfo(lines, selection, "left").adjacentHighlight.found
             /\ ~HasNeighbour(lines, selection, 1)
                   => ~previewInfo(lines, selection, "right").adjacentHighlight.found

\* C24 witness: the first of several segments of a line is selected after an
\* edit. In mode left the preview highlights its first character and has no
\* neighbour highlight; in mode right it highlights the next sibling.
C24_Witness ==
    /\ lastOp \in BoundaryOps
    /\ SelectionValid(lines, selection)
    /\ ~HasNeighbour(lines, selection, -1)
    /\ HasNeighbour(lines, selection, 1)
    /\ previewInfo(lines, selection, "left").currentHighlight.found
    /\ ~previewInfo(lines, selection, "left").adjacentHighlight.found
    /\ previewInfo(lines, selection, "right").adjacentHighlight.found

\* C25: no line without segments. In every reachable state of a marking
\* session every line of the live collection has at least one segment.
C25_LinesHaveSegments ==
    isMarking => \A i \in 1..Len(lines) : Len(lines[i].segments) >= 1

\* C26: deleteSegment toggles only isDeleted of the selected segment: its
\* isError, text, offsets and id, and every other segment, are unchanged;
\* the second of two consecutive deleteSegment calls on the same selection
\* restores the lines the first call found, flags included.
C26_DeleteSegmentTogglesOnly ==
    [][(lastOp' = "deleteSegment" /\ getSelectedSegment(lines, selection).found)
          => LET selected == getSelectedSegment(lines, selection)
                 old == SelectedIn(lines, selection)
             IN /\ lines' = [lines EXCEPT
                               ![selected.lineIndex].segments[selected.segmentIndex] =
                                   [old EXCEPT !.isDeleted = ~old.isDeleted]]
                /\ selection' = selection
                /\ (lastOp = "deleteSegment" /\ Len(history) >= 1
                        /\ SelectionOf(Last(history)) = selection)
                      => lines' = Last(history).lines]_vars

\* C26 witness: an error segment was deleted and deleted again; it is an
\* error segment that is not deleted, as before the first call
C26_Witness ==
    /\ lastOp = "deleteSegment"
    /\ Len(history) >= 2
    /\ SelectionOf(history[Len(history)]) = selection
    /\ SelectionOf(history[Len(history) - 1]) = selection
    /\ getSelectedSegment(lines, selection).found
    /\ lines = history[Len(history) - 1].lines
    /\ SelectedIn(lines, selection).isError /\ ~SelectedIn(lines, selection).isDeleted
    /\ SelectedIn(history[Len(history)].lines, selection).isError
    /\ SelectedIn(history[Len(history)].lines, selection).isDeleted

\* The segment ids of the lines in document order
RECURSIVE Concat(_)
Concat(seqs) == IF Len(seqs) = 0 THEN <<>> ELSE seqs[1] \o Concat(Tail(seqs))

DocSegmentIds(ls) ==
    Concat([i \in 1..Len(ls) |->
               [j \in 1..Len(ls[i].segments) |-> ls[i].segments[j].id]])

NotBlank(text) == ~IsBlank(text)

\* C27: tokenize drops the blank lines and numbers from 1. After every
\* tokenization of an input text the lines are the input lines whose trimmed
\* content is not empty, in input order, with ids line-1 .. line-k, and the
\* segments carry ids seg-1 .. seg-m in document order; the counters stand
\* at k and m.
C27_TokenizeNumbersFromOne ==
    lastOp = "startMarking"
        => LET kept == SelectSeq(SplitLines(inputText), NotBlank)
               ids == DocSegmentIds(lines)
           IN /\ Len(lines) = Len(kept)
              /\ \A i \in 1..Len(lines) :
                     lines[i].id = i /\ lines[i].originalText = kept[i]
              /\ \A p \in 1..Len(ids) : ids[p] = p
              /\ lineIdCounter = Len(lines)
              /\ segmentIdCounter = Len(ids)

\* C27 witness: the input began with a blank line, which was dropped, and
\* the line after it is line-1 with segments seg-1, seg-2
C27_Witness ==
    /\ lastOp = "startMarking"
    /\ Len(SplitLines(inputText)) = 2
    /\ IsBlank(SplitLines(inputText)[1])
    /\ Len(lines) = 1
    /\ lines[1].id = 1
    /\ DocSegmentIds(lines) = <<1, 2>>

\* The lines of ls, as a set
LinesOf(ls) == { ls[i] : i \in 1..Len(ls) }

\* The first position at which the sequences differ (both at least that long)
FirstDifference(ls, ms) ==
    CHOOSE i \in 1..Len(ms) :
        /\ i > Len(ls) \/ ls[i] # ms[i]
        /\ \A j \in 1..(i - 1) : j <= Len(ls) /\ ls[j] = ms[j]

\* C28: reparseLine keeps the supplied line id and the counters' progress.
\* On a re-parse of a line the counters are not lowered, the line put in the
\* place of the re-parsed one has the id of the re-parsed one, every segment
\* of a line the step has produced has an id above the segment counter as it
\* stood before the step (so above every id the tokenizer has issued since
\* the last reset) and up to the counter after it, and a produced line with
\* another id has a line id above the line counter before the step.
C28_ReparseLineKeepsCounters ==
    [][lastOp' = "reParseLine" =>
        /\ segmentIdCounter' >= segmentIdCounter
        /\ lineIdCounter' >= lineIdCounter
        /\ \A i \in 1..Len(lines') :
               lines'[i] \notin LinesOf(lines) =>
                   /\ \A j \in 1..Len(lines'[i].segments) :
                          /\ lines'[i].segments[j].id > segmentIdCounter
                          /\ lines'[i].segments[j].id <= segmentIdCounter'
                   /\ \/ i <= Len(lines) /\ lines'[i].id = lines[i].id
                         /\ i = FirstDifference(lines, lines')
                      \/ /\ lines'[i].id > lineIdCounter
                         /\ lines'[i].id <= lineIdCounter'
                         /\ i > FirstDifference(lines, lines')
        /\ (Len(lines') >= Len(lines) /\ lines' # lines)
              => LET d == FirstDifference(lines, lines')
                 IN d <= Len(lines) /\ lines'[d].id = lines[d].id]_vars

\* C28 witness: a line whose text was edited to two lines has been re-parsed
\* into two lines; the first keeps the line id, the second has a new one, and
\* the segments of both are numbered above the ids issued before
C28_Witness ==
    /\ lastOp = "reParseLine"
    /\ Len(history) >= 1
    /\ LET pre == Last(history).lines
       IN /\ Len(lines) = Len(pre) + 1
          /\ LET d == FirstDifference(pre, lines)
             IN /\ d <= Len(pre)
                /\ lines[d].id = pre[d].id
                /\ lines[d + 1].id \notin { pre[i].id : i \in 1..Len(pre) }
                /\ Len(lines[d].segments) >= 1
                /\ Len(lines[d + 1].segments) >= 1
                /\ \A seg \in AllSegments(pre) :
                       /\ lines[d].segments[1].id > seg.id
                       /\ lines[d + 1].segments[1].id > seg.id

\* C29: reassignIds changes only ids. After the step the lines carry the ids
\* line-1 .. line-n and the segments seg-1 .. seg-m in document order; the
\* number and order of lines and segments, every segment's text, isError,
\* isDeleted, startIndex and endIndex and every line's originalText are as
\* before.
C29_ReassignIdsOnlyIds ==
    [][lastOp' = "reassignIds" =>
        /\ Len(lines') = Len(lines)
        /\ \A i \in 1..Len(lines) :
               /\ lines'[i].id = i
               /\ lines'[i].originalText = lines[i].originalText
               /\ Len(lines'[i].segments) = Len(lines[i].segments)
               /\ \A j \in 1..Len(lines[i].segments) :
                      LET old == lines[i].segments[j]
                          new == lines'[i].segments[j]
                      IN /\ new.text = old.text
                         /\ new.isError = old.isError
                         /\ new.isDeleted = old.isDeleted
                         /\ new.startIndex = old.startIndex
                         /\ new.endIndex = old.endIndex
        /\ LET ids == DocSegmentIds(lines')
           IN /\ \A p \in 1..Len(ids) : ids[p] = p
              /\ \A p, q \in 1..Len(ids) : p # q => ids[p] # ids[q]]_vars

\* C29 witness: lines with a segment of the editor's numbering (above 1000)
\* and an error mark have been renumbered: the ids are 1, 2, 3 and the mark
\* is still there
C29_Witness ==
    /\ lastOp = "reassignIds"
    /\ Len(history) >= 1
    /\ \E seg \in AllSegments(Last(history).lines) : seg.id > EditorIdBase
    /\ LineTexts(lines) = LineTexts(Last(history).lines)
    /\ DocSegmentIds(lines) = <<1, 2, 3>>
    /\ \E seg \in AllSegments(lines) : seg.isError

\* The handlers of a marking session that assign parseText(...) to the lines
RetokenizingOps == {"reParseAll", "reParseAllFromEditedText"}

\* C30: a global re-tokenization only after confirmation. A step of a marking
\* session that replaces the line collection by a fresh tokenization of the
\* whole text (and so changes it) is the step of handleReParseAll in which
\* the confirmation was granted; when the confirmation is declined the
\* lines, the selection and the history are unchanged.
C30_RetokenizeOnlyConfirmed ==
    [][/\ (/\ isMarking
           /\ lastOp' \in RetokenizingOps
           /\ lines' = parseText(inputText').lines
           /\ lines' # lines)
             => lastOp' = "reParseAll"
       /\ lastOp' = "reParseAllDeclined"
             => UNCHANGED <<lines, selection, history>>]_vars

\* C31: undo and the empty stack. An undo on an empty history returns no
\* snapshot and leaves the lines, the selection and the stack as they are;
\* an undo on a non-empty history removes exactly the top entry.
C31_UndoOnEmptyStack ==
    [][lastOp' = "undo" =>
        /\ Len(history) = 0
              => /\ ~undo(history).found
                 /\ UNCHANGED <<lines, selection, history>>
        /\ Len(history) > 0
              => /\ undo(history).found
                 /\ history' = SubSeq(history, 1, Len(history) - 1)]_vars

\* C31 witness: the first command after the start of the marking session was
\* an undo, on a stack that was empty; the tokenized lines are still there
C31_Witness ==
    /\ lastOp = "undo"
    /\ steps = 2
    /\ isMarking
    /\ Len(history) = 0
    /\ Len(lines) > 0
    /\ getSelectedSegment(lines, selection).found

\* C32: the history is emptied on reset and re-entry. Whenever the session is
\* not in marking mode the history is empty, it is still empty when a new
\* marking session has started, and an undo that directly follows the start
\* finds nothing to undo and leaves the new document's lines and selection.
C32_HistoryEmptiedOnReset ==
    [][/\ ~isMarking' => Len(history') = 0
       /\ lastOp' = "startMarking" => Len(history') = 0
       /\ (lastOp = "startMarking" /\ lastOp' = "undo")
             => /\ ~undo(history).found
                /\ UNCHANGED <<lines, selection, history>>]_vars

\* C32 witness: a marking session has started after an earlier session in
\* which the editor made a new segment (and so pushed a snapshot); the
\* history is empty and the lines are the fresh tokenization
C32_Witness ==
    /\ lastOp = "startMarking"
    /\ editorIdCounter > EditorIdBase
    /\ isMarking
    /\ Len(history) = 0
    /\ lines = parseText(inputText).lines

\* C33: the selection names a live segment. In every reachable state of a
\* marking session the selection is (null, null) or names a line of the
\* collection and a segment of that line.
C33_SelectionNamesLiveSegment ==
    isMarking => (selection = NoSelection \/ SelectionValid(lines, selection))

\* C34: offsets span the text. In every state reached from a tokenized
\* document by operations of the segment editor and batchMerge, every segment
\* has endIndex - startIndex = the length of its text.
C34_OffsetsSpanText ==
    \A seg \in AllSegments(lines) : seg.endIndex - seg.startIndex = Len(seg.text)

ShrinkRightBetween(pre, mid) ==
    LET a == getSelectedSegment(pre.lines, SelectionOf(pre))
        b == getSelectedSegment(mid.lines, SelectionOf(mid))
    IN /\ a.found /\ b.found
       /\ SelectionOf(pre) = SelectionOf(mid)
       /\ a.lineIndex = b.lineIndex /\ a.segmentIndex = b.segmentIndex
       /\ Len(pre.lines) = Len(mid.lines)
       /\ LET segs == pre.lines[a.lineIndex].segments
              segs2 == mid.lines[a.lineIndex].segments
              i == a.segmentIndex
          IN /\ Len(segs[i].text) >= 2
             /\ AdjacentTiled(segs)
             /\ segs2[i] = [segs[i] EXCEPT !.text = Front(segs[i].text),
                                           !.endIndex = segs[i].endIndex - 1]
             /\ \A j \in 1..(i - 1) : segs2[j] = segs[j]
             /\ IF i < Len(segs)
                THEN /\ Len(segs2) = Len(segs)
                     /\ segs2[i + 1] =
                          [segs[i + 1] EXCEPT
                              !.text = <<Last(segs[i].text)>> \o segs[i + 1].text,
                              !.startIndex = segs[i + 1].startIndex - 1]
                     /\ \A j \in (i + 2)..Len(segs) : segs2[j] = segs[j]
                ELSE /\ Len(segs2) = Len(segs) + 1
                     /\ segs2[i + 1].text = <<Last(segs[i].text)>>
                     /\ segs2[i + 1].id \notin SegmentIds(pre.lines)
                     /\ segs2[i + 1].startIndex = segs[i].endIndex - 1
                     /\ segs2[i + 1].endIndex = segs[i].endIndex

\* C36: shrinkRight and expandRight are inverses on a tiled line. When
\* shrinkRight has acted on a selected segment of text length >= 2 in a
\* contiguously tiled line (the snapshot it pushed is the last of the
\* history), an expandRight step on the same selection restores the line's
\* segment sequence: as many segments as before, each with its text,
\* startIndex and endIndex, whether there was a next sibling or the
\* one-character segment that shrinkRight created is consumed and removed.
C36_ShrinkExpandRightInverse ==
    [][(/\ Len(history) >= 1
        /\ ShrinkRightBetween(Last(history), CurrentState)
        /\ lastOp' = "expandRight")
          => LET pre == Last(history)
                 a == getSelectedSegment(pre.lines, SelectionOf(pre))
                 segs == pre.lines[a.lineIndex].segments
                 now == lines'[a.lineIndex].segments
             IN /\ Len(now) = Len(segs)
                /\ \A j \in 1..Len(segs) :
                       /\ now[j].text = segs[j].text
                       /\ now[j].startIndex = segs[j].startIndex
                       /\ now[j].endIndex = segs[j].endIndex]_vars

\* C36 witness: the only segment of a line gave its last character to a new
\* segment (shrinkRight) and took it back (expandRight): the new segment is
\* gone and the line is as before the shrinkRight
C36_Witness ==
    /\ lastOp = "expandRight"
    /\ Len(history) >= 2
    /\ ShrinkRightBetween(history[Len(history) - 1], history[Len(history)])
    /\ selection = SelectionOf(history[Len(history)])
    /\ LET pre == history[Len(history) - 1]
           a == getSelectedSegment(pre.lines, SelectionOf(pre))
       IN /\ a.segmentIndex = Len(pre.lines[a.lineIndex].segments)
          /\ lines = pre.lines
          /\ lines # history[Len(history)].lines

\* The segments of ls that batchMerge(target, direction) would still merge:
\* text equal to target, neither error nor excluded, with a sibling on the
\* direction side
MergeCandidates(ls, target, direction) ==
    { p \in UNION { { <<i, j>> : j \in 1..Len(ls[i].segments) } : i \in 1..Len(ls) } :
        LET seg == ls[p[1]].segments[p[2]]
        IN /\ seg.text = target
           /\ ~seg.isError /\ ~seg.isDeleted
           /\ IF direction = "left" THEN p[2] > 1
              ELSE p[2] < Len(ls[p[1]].segments) }

\* C37: batchMerge leaves nothing it would still merge. After
\* batchMerge(direction) with the target typed beside the buttons, no line
\* has a segment whose text is the target, that is neither error nor
\* excluded, and that has a sibling on the direction side; runs of
\* consecutive matching segments included.
C37_BatchMergeExhaustive ==
    [][\A direction \in {"left", "right"}, mergeChar \in MergeStrings :
           batchMerge(direction, mergeChar)
              => MergeCandidates(lines', Trim(mergeChar), direction) = {}]_vars

\* C37 witness: a line of three consecutive unmarked segments "a" has been
\* merged to the right in one call into the single segment "aaa"
C37_Witness ==
    /\ lastOp = "batchMerge"
    /\ Len(history) = 1
    /\ Len(lines) = 1
    /\ Len(history[1].lines[1].segments) = 3
    /\ \A j \in 1..3 : LET seg == history[1].lines[1].segments[j]
                       IN seg.text = <<"a">> /\ ~seg.isError /\ ~seg.isDeleted
    /\ Len(lines[1].segments) = 1
    /\ lines[1].segments[1].text = <<"a", "a", "a">>

\* C38: match navigation selects the current match. After every nextMatch
\* or prevMatch call made while the match list is not empty, the selection
\* names the line and the segment of the current match, whatever segment was
\* selected before the call.
C38_NavigationSelectsMatch ==
    [][((nextMatch \/ prevMatch)
          /\ Len(matches(lines, searchQuery, caseSensitive)) > 0)
          => LET m == currentMatch(matches(lines', searchQuery', caseSensitive'),
                                   currentMatchIndex')
             IN /\ m.found
                /\ selection' = [lineId |-> m.match.lineId,
                                 segmentId |-> m.match.segmentId]]_vars

-----------------------------------------------------------------------------
(* The toggle specification: the two ways of toggling a segment, the       *)
(* click-toggle called with every pair of ids, in the collection or not    *)

\* An id that no line and no segment has
StaleId == 0 - 1

\* The (lineId, segmentId) pairs handed to handleToggleSegment: the rendered
\* pairs, a segment id under a line that does not hold it, and stale ids
ToggleIds == (RenderedLineIds \cup {StaleId}) \X (SegmentIds(lines) \cup {StaleId})

NextToggle ==
    \/ Budget(MaxToggleSteps) /\ \E text \in SessionDocs : handleStartMarking(text)
    \/ Budget(MaxToggleSteps) /\ \E p \in RenderedIds : handleSelectSegment(p[1], p[2])
    \/ Budget(MaxToggleSteps) /\ ToggleError
    \/ Budget(MaxToggleSteps) /\ DeleteSegment
    \/ Budget(MaxToggleSteps) /\ \E p \in ToggleIds : handleToggleSegment(p[1], p[2])

SpecToggle == Init /\ [][NextToggle]_vars

\* C39: click-toggle and toggleError are the same state machine. For every
\* pair of ids and every combination of the two flags, toggle(lineId,
\* segmentId) leaves the lines that toggleError leaves when that pair is the
\* selection, and does not change the selection; when the pair names a
\* segment of the collection it pushes exactly one snapshot, of the state
\* before the change; when it does not, the lines are unchanged and nothing
\* is pushed.
C39_ClickToggleIsToggleError ==
    [][\A p \in ToggleIds :
          handleToggleSegment(p[1], p[2])
             => LET asSelected == [lineId |-> p[1], segmentId |-> p[2]]
                    r == toggleError(lines, asSelected, editorIdCounter)
                IN /\ lines' = r.lines
                   /\ selection' = selection
                   /\ IF getSelectedSegment(lines, asSelected).found
                      THEN /\ r.hook
                           /\ Len(history') = Len(history) + 1
                           /\ SubSeq(history', 1, Len(history)) = history
                           /\ Last(history') = SnapshotOf(Observed(lines, selection))
                      ELSE /\ ~r.hook
                           /\ lines' = lines
                           /\ history' = history]_vars

\* C39 witness: a click-toggle on a segment that was both error and excluded
\* (toggleError, then deleteSegment) has made it normal, while another
\* segment is selected
C39_Witness ==
    /\ lastOp = "toggle"
    /\ Len(history) >= 1
    /\ selection = SelectionOf(Last(history))
    /\ \E old \in AllSegments(Last(history).lines), new \in AllSegments(lines) :
           /\ old.id = new.id
           /\ old.id # selection.segmentId
           /\ old.isError /\ old.isDeleted
           /\ ~new.isError /\ ~new.isDeleted

\* C39 witness of the second case: a click-toggle with the id of a segment
\* under a line that does not hold it has changed and pushed nothing
C39_StaleWitness ==
    /\ lastOp = "toggle"
    /\ steps = 2
    /\ Len(lines) = 2
    /\ Len(history) = 0
    /\ \A seg \in AllSegments(lines) : ~seg.isError /\ ~seg.isDeleted

====
